---- MODULE Spec2Model ----
(***************************************************************************)
(* Model of triagebot: the relabel handler (src/src/handlers/relabel.rs:   *)
(* check_filter / match_pattern, compute_label_deltas, handle_command),    *)
(* the note command grammar (src/parser/src/command/note.rs) and the       *)
(* major-change handler (src/src/handlers/major_change.rs: parse_input,    *)
(* handle_input, handle_command, handle, zulip_topic_from_issue).          *)
(* Strings that the code inspects character by character (labels, glob     *)
(* patterns, comment text, titles) are sequences of one-character strings. *)
(***************************************************************************)
EXTENDS Integers, Sequences, FiniteSets, TLC

VARIABLES
    label,       \* check_filter: the `label` argument
    config,      \* RelabelConfig.allow_unauthenticated (ordered ACL)
    is_member,   \* check_filter: the `is_member` argument
    result,      \* check_filter: the returned Result (NotCalled before the call)
    deltas,      \* compute_label_deltas: the `deltas` argument
    computed,    \* compute_label_deltas: <<the returned pair>>, <<>> before the call
    input,       \* handle_command: input.0, the directives of the command
    pc,          \* handle_command: the await point the task is suspended at
    idx,         \* handle_command: index of the directive the loop examines next
    queries,     \* handle_command: team-membership queries issued so far
    comments,    \* handle_command: comments posted on the issue so far
    calls,       \* handle_command: label API calls issued so far
    to_add,      \* handle_command: local `to_add`
    to_remove,   \* handle_command: local `to_remove`
    rm,          \* handle_command: position in the `for label in to_remove` loop
    ret,         \* handle_command: the returned Result
    note_text,   \* NoteCommand::parse: the text the caller's tokenizer runs over
    note_start,  \* NoteCommand::parse: offset of the caller's tokenizer at the call
    note_input,  \* NoteCommand::parse: offset of the caller's tokenizer `input`
    note_toks,   \* NoteCommand::parse: offset of the clone `toks`
    note_result, \* NoteCommand::parse: <<the returned Result>>, <<>> before the call
    mc_entry,    \* major_change: the function that was called
    mc_config,   \* major_change: Option<MajorChangeConfig>
    mc_event,    \* major_change: the event (action, changes, the issue and its labels)
    mc_cmd,      \* major_change: the Invocation (parse_input's result / handle_input's cmd)
    mc_pc,       \* major_change: the await point the task is suspended at
    mc_log,      \* major_change: requests issued to GitHub and Zulip so far
    mc_gh,       \* major_change: handle's github_req future
    mc_zulip,    \* major_change: handle's zulip_req future
    mc_ret,      \* major_change: the returned Result
    zt_issue,    \* zulip_topic_from_issue: the `issue` argument (title, topic reference)
    zt_topic     \* zulip_topic_from_issue: <<the outcome>>, <<>> before the call

filterVars == <<label, is_member, result>>
deltaVars == <<deltas, computed>>
relabelVars == <<input, pc, idx, queries, comments, calls, to_add, to_remove, rm, ret>>
noteVars == <<note_text, note_start, note_input, note_toks, note_result>>
majorVars == <<mc_entry, mc_config, mc_event, mc_cmd, mc_pc, mc_log, mc_gh, mc_zulip, mc_ret>>
topicVars == <<zt_issue, zt_topic>>
vars == <<label, config, is_member, result, deltas, computed, input, pc, idx,
          queries, comments, calls, to_add, to_remove, rm, ret,
          note_text, note_start, note_input, note_toks, note_result,
          mc_entry, mc_config, mc_event, mc_cmd, mc_pc, mc_log, mc_gh, mc_zulip, mc_ret,
          zt_issue, zt_topic>>

----------------------------------------------------------------------------
(* Bounds of the model. *)

NumPatterns == 4      \* patterns of PatternPool an ACL draws from
MaxAcl == 3           \* longest ACL of the filter specification
NumLabels == 4        \* labels of LabelPool the filter and the resolver draw from
MaxDeltas == 3        \* longest directive list of the resolver specification
NumRelabelLabels == 2 \* labels of LabelPool a relabel command draws from
MaxInput == 2         \* longest relabel command
MaxRelabelAcl == 1    \* longest ACL of the relabel specification
NumSegments == 6      \* segments of SegmentPool a note text is built from
MaxSegments == 4      \* most segments of a note text
MaxTitleLen == 61     \* longest issue title, in chars
MaxRefLen == 60       \* longest Zulip topic reference, in chars
NumEventLabels == 4   \* labels of EventLabelPool a Labeled/Unlabeled event names
NumIssueLabels == 2   \* labels of IssueLabelPool an issue can carry

----------------------------------------------------------------------------
(* Characters. *)

Lowercase == <<"a","b","c","d","e","f","g","h","i","j","k","l","m",
               "n","o","p","q","r","s","t","u","v","w","x","y","z">>
Uppercase == <<"A","B","C","D","E","F","G","H","I","J","K","L","M",
               "N","O","P","Q","R","S","T","U","V","W","X","Y","Z">>

IsUpper(c) == \E i \in 1..26 : Uppercase[i] = c
IsLower(c) == \E i \in 1..26 : Lowercase[i] = c
LetterIndex(c) == CHOOSE i \in 1..26 : Uppercase[i] = c \/ Lowercase[i] = c

\* char::to_ascii_lowercase
ToAsciiLowercase(c) == IF IsUpper(c) THEN Lowercase[LetterIndex(c)] ELSE c

\* the byte value of an ASCII character
CharCode(c) ==
    IF IsUpper(c) THEN 64 + LetterIndex(c)
    ELSE IF IsLower(c) THEN 96 + LetterIndex(c)
    ELSE CASE c = "!" -> 33
           [] c = "*" -> 42
           [] c = "-" -> 45
           [] c = "/" -> 47
           [] c = "?" -> 63
           [] c = "[" -> 91
           [] c = "]" -> 93
           [] OTHER -> 32

\* std::path::is_separator (unix)
IsSeparator(c) == c = "/"

\* chars_eq that compares the characters as they are (case_sensitive = true)
CharsEq_CaseSensitive(a, b) == a = b

\* glob's chars_eq with case_sensitive = false (all modelled characters are ASCII)
CharsEq(a, b) == ToAsciiLowercase(a) = ToAsciiLowercase(b)

SeqsUpTo(S, n) == UNION {[1..k -> S] : k \in 0..n}

----------------------------------------------------------------------------
(* The glob crate as match_pattern uses it: Pattern::new and               *)
(* Pattern::matches_with under MatchOptions::default() with                *)
(* case_sensitive = false (require_literal_separator and                   *)
(* require_literal_leading_dot stay false).                                *)

Tok(k) == [kind |-> k, c |-> "", specs |-> <<>>]
CharTok(ch) == [kind |-> "Char", c |-> ch, specs |-> <<>>]
ClassTok(k, sp) == [kind |-> k, c |-> "", specs |-> sp]

GlobOk(toks) == [ok |-> TRUE, tokens |-> toks]
GlobErr == [ok |-> FALSE, tokens |-> <<>>]

\* length of the run of `*` that starts at position i
RECURSIVE StarRun(_, _)
StarRun(chars, i) ==
    IF i <= Len(chars) /\ chars[i] = "*" THEN 1 + StarRun(chars, i + 1) ELSE 0

\* position (1-based, absolute) of the first `]` at or after position from; 0 if none
RECURSIVE ClosePos(_, _)
ClosePos(chars, from) ==
    IF from > Len(chars) THEN 0
    ELSE IF chars[from] = "]" THEN from
    ELSE ClosePos(chars, from + 1)

\* parse_char_specifiers: `a-c` is a range, anything else a single character
RECURSIVE CharSpecifiers(_, _)
CharSpecifiers(s, i) ==
    IF i > Len(s) THEN <<>>
    ELSE IF i + 2 <= Len(s) /\ s[i + 1] = "-"
         THEN <<[kind |-> "range", lo |-> s[i], hi |-> s[i + 2]]>> \o CharSpecifiers(s, i + 3)
         ELSE <<[kind |-> "single", lo |-> s[i], hi |-> s[i]]>> \o CharSpecifiers(s, i + 1)

IsLetter(c) == IsUpper(c) \/ IsLower(c)

\* in_char_specifiers with case_sensitive = false
InCharSpecifiers(specs, c) ==
    \E k \in 1..Len(specs) :
        LET sp == specs[k] IN
        IF sp.kind = "single" THEN CharsEq(c, sp.lo)
        ELSE \/ /\ IsLetter(sp.lo) /\ IsLetter(sp.hi)
                /\ CharCode(ToAsciiLowercase(c)) >= CharCode(ToAsciiLowercase(sp.lo))
                /\ CharCode(ToAsciiLowercase(c)) <= CharCode(ToAsciiLowercase(sp.hi))
             \/ /\ CharCode(c) >= CharCode(sp.lo)
                /\ CharCode(c) <= CharCode(sp.hi)

\* glob::Pattern::new: the token list of a pattern, or an error
RECURSIVE GlobParse(_, _, _)
GlobParse(chars, i, toks) ==
    IF i > Len(chars) THEN GlobOk(toks)
    ELSE LET ch == chars[i] IN
      CASE ch = "?" -> GlobParse(chars, i + 1, Append(toks, Tok("AnyChar")))
        [] ch = "*" ->
            LET n == StarRun(chars, i)
                j == i + n   \* first position after the run
            IN  IF n > 2 THEN GlobErr
                ELSE IF n = 2 THEN
                    IF i = 1 \/ IsSeparator(chars[i - 1]) THEN
                        LET collapsed ==
                              IF Len(toks) > 1 /\ toks[Len(toks)].kind = "AnyRecursiveSequence"
                              THEN toks ELSE Append(toks, Tok("AnyRecursiveSequence"))
                        IN  IF j <= Len(chars) /\ IsSeparator(chars[j])
                            THEN GlobParse(chars, j + 1, collapsed)
                            ELSE IF j > Len(chars) THEN GlobParse(chars, j, collapsed)
                            ELSE GlobErr
                    ELSE GlobErr
                ELSE GlobParse(chars, j, Append(toks, Tok("AnySequence")))
        [] ch = "[" ->
            IF i + 3 <= Len(chars) /\ chars[i + 1] = "!" /\ ClosePos(chars, i + 3) # 0
            THEN LET e == ClosePos(chars, i + 3) IN
                 GlobParse(chars, e + 1,
                     Append(toks, ClassTok("AnyExcept",
                         CharSpecifiers(SubSeq(chars, i + 2, e - 1), 1))))
            ELSE IF i + 2 <= Len(chars) /\ chars[i + 1] # "!" /\ ClosePos(chars, i + 2) # 0
            THEN LET e == ClosePos(chars, i + 2) IN
                 GlobParse(chars, e + 1,
                     Append(toks, ClassTok("AnyWithin",
                         CharSpecifiers(SubSeq(chars, i + 1, e - 1), 1))))
            ELSE GlobErr
        [] OTHER -> GlobParse(chars, i + 1, Append(toks, CharTok(ch)))

PatternNew(chars) == GlobParse(chars, 1, <<>>)

\* Pattern::matches_from: do tokens ti.. match file from position fi to its end
RECURSIVE MatchesFrom(_, _, _, _)
MatchesFrom(toks, ti, file, fi) ==
    IF ti > Len(toks) THEN fi > Len(file)
    ELSE LET t == toks[ti] IN
      CASE t.kind = "AnySequence" ->
            \E k \in fi..(Len(file) + 1) : MatchesFrom(toks, ti + 1, file, k)
        [] t.kind = "AnyRecursiveSequence" ->
            \/ MatchesFrom(toks, ti + 1, file, fi)
            \/ \E k \in (fi + 1)..(Len(file) + 1) :
                  /\ IsSeparator(file[k - 1])
                  /\ MatchesFrom(toks, ti + 1, file, k)
            \/ MatchesFrom(toks, ti + 1, file, Len(file) + 1)
        [] t.kind = "AnyChar" ->
            fi <= Len(file) /\ MatchesFrom(toks, ti + 1, file, fi + 1)
        [] t.kind = "AnyWithin" ->
            /\ fi <= Len(file)
            /\ InCharSpecifiers(t.specs, file[fi])
            /\ MatchesFrom(toks, ti + 1, file, fi + 1)
        [] t.kind = "AnyExcept" ->
            /\ fi <= Len(file)
            /\ ~InCharSpecifiers(t.specs, file[fi])
            /\ MatchesFrom(toks, ti + 1, file, fi + 1)
        [] OTHER ->
            /\ fi <= Len(file)
            /\ CharsEq(file[fi], t.c)
            /\ MatchesFrom(toks, ti + 1, file, fi + 1)

MatchesWith(toks, file) == MatchesFrom(toks, 1, file, 1)

----------------------------------------------------------------------------
(* match_pattern and check_filter. *)

TeamMembership == {"Member", "Outsider", "Unknown"}

\* pattern.starts_with('!')
IsInverse(pattern) == Len(pattern) >= 1 /\ pattern[1] = "!"
GlobPart(pattern) == IF IsInverse(pattern) THEN Tail(pattern) ELSE pattern

\* match_pattern: "Allow", "Deny", "NoMatch", or "Err" when the glob is malformed
match_pattern(pattern, lbl) ==
    LET glob == PatternNew(GlobPart(pattern)) IN
    IF ~glob.ok THEN "Err"
    ELSE IF ~MatchesWith(glob.tokens, lbl) THEN "NoMatch"
    ELSE IF IsInverse(pattern) THEN "Deny"
    ELSE "Allow"

\* Result<CheckFilterResult, String>
Ok(v) == [ok |-> TRUE, val |-> v, msg |-> <<>>]
Err(m) == [ok |-> FALSE, val |-> "Err", msg |-> m]
NotCalled == [ok |-> FALSE, val |-> "NotCalled", msg |-> <<>>]

PatternErrorMessage(pattern) == <<"failed to match pattern ">> \o pattern

\* ScanPatterns with a deny that clears `matched` and goes on scanning
RECURSIVE ScanPatterns_NoBreak(_, _, _, _)
ScanPatterns_NoBreak(lbl, acl, i, matched) ==
    IF i > Len(acl) THEN [err |-> FALSE, matched |-> matched, msg |-> <<>>]
    ELSE LET m == match_pattern(acl[i], lbl) IN
      CASE m = "Allow" -> ScanPatterns_NoBreak(lbl, acl, i + 1, TRUE)
        [] m = "Deny" -> ScanPatterns_NoBreak(lbl, acl, i + 1, FALSE)
        [] m = "NoMatch" -> ScanPatterns_NoBreak(lbl, acl, i + 1, matched)
        [] OTHER -> [err |-> TRUE, matched |-> FALSE, msg |-> PatternErrorMessage(acl[i])]

\* ScanPatterns with a deny that stops the scan and keeps `matched`
RECURSIVE ScanPatterns_KeepMatched(_, _, _, _)
ScanPatterns_KeepMatched(lbl, acl, i, matched) ==
    IF i > Len(acl) THEN [err |-> FALSE, matched |-> matched, msg |-> <<>>]
    ELSE LET m == match_pattern(acl[i], lbl) IN
      CASE m = "Allow" -> ScanPatterns_KeepMatched(lbl, acl, i + 1, TRUE)
        [] m = "Deny" -> [err |-> FALSE, matched |-> matched, msg |-> <<>>]
        [] m = "NoMatch" -> ScanPatterns_KeepMatched(lbl, acl, i + 1, matched)
        [] OTHER -> [err |-> TRUE, matched |-> FALSE, msg |-> PatternErrorMessage(acl[i])]

\* the `for pattern in &config.allow_unauthenticated` loop from position i on;
\* yields the final `matched`, or the error the loop returns with
RECURSIVE ScanPatterns(_, _, _, _)
ScanPatterns(lbl, acl, i, matched) ==
    IF i > Len(acl) THEN [err |-> FALSE, matched |-> matched, msg |-> <<>>]
    ELSE LET m == match_pattern(acl[i], lbl) IN
      CASE m = "Allow" -> ScanPatterns(lbl, acl, i + 1, TRUE)
        [] m = "Deny" -> [err |-> FALSE, matched |-> FALSE, msg |-> <<>>]
        [] m = "NoMatch" -> ScanPatterns(lbl, acl, i + 1, matched)
        [] OTHER -> [err |-> TRUE, matched |-> FALSE, msg |-> PatternErrorMessage(acl[i])]

\* check_filter without the early return for a Member
check_filter_NoBypass(lbl, acl, member) ==
    LET s == ScanPatterns(lbl, acl, 1, FALSE) IN
    IF s.err THEN Err(s.msg)
    ELSE IF s.matched THEN Ok("Allow")
    ELSE IF member = "Outsider" THEN Ok("Deny")
    ELSE Ok("DenyUnknown")

\* check_filter with Deny and DenyUnknown exchanged
check_filter_SwappedDeny(lbl, acl, member) ==
    IF member = "Member" THEN Ok("Allow")
    ELSE LET s == ScanPatterns(lbl, acl, 1, FALSE) IN
         IF s.err THEN Err(s.msg)
         ELSE IF s.matched THEN Ok("Allow")
         ELSE IF member = "Outsider" THEN Ok("DenyUnknown")
         ELSE Ok("Deny")

check_filter(lbl, acl, member) ==
    IF member = "Member" THEN Ok("Allow")
    ELSE LET s == ScanPatterns(lbl, acl, 1, FALSE) IN
         IF s.err THEN Err(s.msg)
         ELSE IF s.matched THEN Ok("Allow")
         ELSE IF member = "Outsider" THEN Ok("Deny")
         ELSE Ok("DenyUnknown")

----------------------------------------------------------------------------
(* Inputs. *)

Min(a, b) == IF a < b THEN a ELSE b

\* "*b", "!a*", "[" (malformed), "?", "!**", "a**" (malformed)
PatternPool == <<<<"*","b">>, <<"!","a","*">>, <<"[">>, <<"?">>, <<"!","*","*">>, <<"a","*","*">>>>
Patterns == {PatternPool[i] : i \in 1..Min(NumPatterns, Len(PatternPool))}

\* "Ab", "b", "ab", "ba", "a", "B"
LabelPool == <<<<"A","b">>, <<"b">>, <<"a","b">>, <<"b","a">>, <<"a">>, <<"B">>>>
LabelsOfPool(n) == {LabelPool[i] : i \in 1..Min(n, Len(LabelPool))}
Labels == LabelsOfPool(NumLabels)

Acls == SeqsUpTo(Patterns, MaxAcl)

\* the configuration and the labels of test_check_filter
TestConfig == <<<<"T","-","*">>, <<"I","-","*">>, <<"!","I","-","*","n","o","m","i","n","a","t","e","d">>>>
T_release == <<"T","-","r","e","l","e","a","s","e">>
I_slow == <<"I","-","s","l","o","w">>
I_lang_nominated == <<"I","-","l","a","n","g","-","n","o","m","i","n","a","t","e","d">>
I_nominated == <<"I","-","n","o","m","i","n","a","t","e","d">>
A_spurious == <<"A","-","s","p","u","r","i","o","u","s">>
TestLabels == {T_release, I_slow, I_lang_nominated, I_nominated, A_spurious}

\* the labels of test_compute_label_deltas
I_libs_nominated == <<"I","-","l","i","b","s","-","n","o","m","i","n","a","t","e","d">>
needs_triage == <<"n","e","e","d","s","-","t","r","i","a","g","e">>

----------------------------------------------------------------------------
(* compute_label_deltas. *)

Add(l) == [op |-> "Add", label |-> l]
Remove(l) == [op |-> "Remove", label |-> l]

\* Ord of Label: names compare as byte strings
RECURSIVE LabelLess(_, _)
LabelLess(a, b) ==
    IF b = <<>> THEN FALSE
    ELSE IF a = <<>> THEN TRUE
    ELSE IF CharCode(Head(a)) # CharCode(Head(b)) THEN CharCode(Head(a)) < CharCode(Head(b))
    ELSE LabelLess(Tail(a), Tail(b))

\* BTreeSet::into_iter().collect(): the elements in ascending order
RECURSIVE IntoSortedVec(_)
IntoSortedVec(S) ==
    IF S = {} THEN <<>>
    ELSE LET m == CHOOSE x \in S : \A y \in S \ {x} : LabelLess(x, y)
         IN  <<m>> \o IntoSortedVec(S \ {m})

\* DeltaStep that inserts without looking at the opposite set (no cancellation)
DeltaStep_NoCancel(s, delta) ==
    IF delta.op = "Add"
    THEN [add |-> s.add \cup {delta.label}, remove |-> s.remove]
    ELSE [add |-> s.add, remove |-> s.remove \cup {delta.label}]

\* DeltaStep in which the last directive on a label wins
DeltaStep_LastWins(s, delta) ==
    IF delta.op = "Add"
    THEN [add |-> s.add \cup {delta.label}, remove |-> s.remove \ {delta.label}]
    ELSE [add |-> s.add \ {delta.label}, remove |-> s.remove \cup {delta.label}]

\* DeltaStep in which a repeated directive toggles the label out of its set
DeltaStep_Toggle(s, delta) ==
    IF delta.op = "Add"
    THEN IF delta.label \in s.remove
         THEN [add |-> s.add, remove |-> s.remove \ {delta.label}]
         ELSE IF delta.label \in s.add
         THEN [add |-> s.add \ {delta.label}, remove |-> s.remove]
         ELSE [add |-> s.add \cup {delta.label}, remove |-> s.remove]
    ELSE IF delta.label \in s.add
         THEN [add |-> s.add \ {delta.label}, remove |-> s.remove]
         ELSE IF delta.label \in s.remove
         THEN [add |-> s.add, remove |-> s.remove \ {delta.label}]
         ELSE [add |-> s.add, remove |-> s.remove \cup {delta.label}]

\* DeltaStep in which a cancellation empties the whole opposite set
DeltaStep_CancelClears(s, delta) ==
    IF delta.op = "Add"
    THEN IF delta.label \in s.remove
         THEN [add |-> s.add, remove |-> {}]
         ELSE [add |-> s.add \cup {delta.label}, remove |-> s.remove]
    ELSE IF delta.label \in s.add
         THEN [add |-> {}, remove |-> s.remove]
         ELSE [add |-> s.add, remove |-> s.remove \cup {delta.label}]

\* one iteration of the `for delta in deltas` loop on the sets add and remove
DeltaStep(s, delta) ==
    IF delta.op = "Add"
    THEN IF delta.label \in s.remove
         THEN [add |-> s.add, remove |-> s.remove \ {delta.label}]
         ELSE [add |-> s.add \cup {delta.label}, remove |-> s.remove]
    ELSE IF delta.label \in s.add
         THEN [add |-> s.add \ {delta.label}, remove |-> s.remove]
         ELSE [add |-> s.add, remove |-> s.remove \cup {delta.label}]

\* the sets add and remove after the first n directives
RECURSIVE DeltaSets(_, _)
DeltaSets(ds, n) ==
    IF n = 0 THEN [add |-> {}, remove |-> {}]
    ELSE DeltaStep(DeltaSets(ds, n - 1), ds[n])

compute_label_deltas(ds) ==
    LET s == DeltaSets(ds, Len(ds))
    IN  [to_add |-> IntoSortedVec(s.add), to_remove |-> IntoSortedVec(s.remove)]


----------------------------------------------------------------------------
(* handle_command. *)

\* the message of the comment for CheckFilterResult::Deny
DenyMessage(name) ==
    <<"Label ">> \o name \o <<" can only be set by Rust team members">>

\* the message of the comment for CheckFilterResult::DenyUnknown
DenyUnknownMessage(name) ==
    <<"Label ">> \o name \o <<" can only be set by Rust team members;",
                              "we were unable to check if you are a team member.">>

\* ErrOf with `Err(err) => None`: the pattern error is not shown
ErrOf_SwallowPatternError(name, r) ==
    IF r = Ok("Deny") THEN <<DenyMessage(name)>>
    ELSE IF r = Ok("DenyUnknown") THEN <<DenyUnknownMessage(name)>>
    ELSE <<>>

\* the `err` of the match on check_filter's result: <<msg>> for Some(msg), <<>> for None
ErrOf(name, r) ==
    IF r = Ok("Allow") THEN <<>>
    ELSE IF r = Ok("Deny") THEN <<DenyMessage(name)>>
    ELSE IF r = Ok("DenyUnknown") THEN <<DenyUnknownMessage(name)>>
    ELSE <<r.msg>>

ErrorComment(msg) == [kind |-> "ErrorComment", body |-> msg]
UnknownLabelsComment == [kind |-> "post_comment", body |-> <<"UnknownLabels">>]

AddLabelsCall(labels, ok) == [op |-> "add_labels", labels |-> labels, ok |-> ok]
RemoveLabelCall(l, ok) == [op |-> "remove_label", labels |-> <<l>>, ok |-> ok]

----------------------------------------------------------------------------
(* States in which a component is not running. *)

FilterIdle == label = <<>> /\ is_member = "Member" /\ result = NotCalled
DeltasIdle == deltas = <<>> /\ computed = <<>>
NoteIdle ==
    /\ note_text = <<>> /\ note_start = 0 /\ note_input = 0 /\ note_toks = 0
    /\ note_result = <<>>
RelabelIdle ==
    /\ input = <<>> /\ pc = "idle" /\ idx = 1 /\ queries = <<>> /\ comments = <<>>
    /\ calls = <<>> /\ to_add = <<>> /\ to_remove = <<>> /\ rm = 1 /\ ret = "none"
MajorIdle ==
    /\ mc_entry = "idle" /\ mc_config = <<>> /\ mc_event = <<>> /\ mc_cmd = <<>>
    /\ mc_pc = "idle" /\ mc_log = <<>> /\ mc_gh = "none" /\ mc_zulip = "none"
    /\ mc_ret = "none"
TopicIdle == zt_issue = <<>> /\ zt_topic = <<>>

----------------------------------------------------------------------------
(* Specification of check_filter: one call on every input. *)

InitFilter ==
    /\ \/ label \in Labels /\ config \in Acls
       \/ label \in TestLabels /\ config = TestConfig
    /\ is_member \in TeamMembership
    /\ result = NotCalled
    /\ DeltasIdle /\ RelabelIdle /\ NoteIdle /\ MajorIdle /\ TopicIdle

CallCheckFilter ==
    /\ result = NotCalled
    /\ result' = check_filter(label, config, is_member)
    /\ UNCHANGED <<label, config, is_member, deltaVars, relabelVars, noteVars, majorVars, topicVars>>

NextFilter == CallCheckFilter

SpecFilter == InitFilter /\ [][NextFilter]_vars

----------------------------------------------------------------------------
(* Specification of compute_label_deltas: one call on every directive list. *)

DirectivesOn(L) == {Add(l) : l \in L} \cup {Remove(l) : l \in L}

\* the directive lists of test_compute_label_deltas
TestDeltas1 ==
    <<Add(I_nominated), Add(I_nominated), Add(I_lang_nominated),
      Add(I_libs_nominated), Remove(I_lang_nominated)>>
TestDeltas2 == TestDeltas1 \o <<Remove(needs_triage), Add(I_lang_nominated)>>

InitDeltas ==
    /\ deltas \in SeqsUpTo(DirectivesOn(Labels), MaxDeltas) \cup {TestDeltas1, TestDeltas2}
    /\ computed = <<>>
    /\ config = <<>>
    /\ FilterIdle /\ RelabelIdle /\ NoteIdle /\ MajorIdle /\ TopicIdle

CallComputeLabelDeltas ==
    /\ computed = <<>>
    /\ computed' = <<compute_label_deltas(deltas)>>
    /\ UNCHANGED <<deltas, config, filterVars, relabelVars, noteVars, majorVars, topicVars>>

NextDeltas == CallComputeLabelDeltas

SpecDeltas == InitDeltas /\ [][NextDeltas]_vars

----------------------------------------------------------------------------
(* Specification of handle_command: one relabel command, suspended at its  *)
(* await points; the team-membership service and the GitHub API answer     *)
(* as they please.                                                         *)

InitRelabel ==
    /\ input \in SeqsUpTo(DirectivesOn(LabelsOfPool(NumRelabelLabels)), MaxInput)
    /\ config \in SeqsUpTo(Patterns, MaxRelabelAcl)
    /\ pc = IF input = <<>> THEN "add_labels" ELSE "check"
    /\ idx = 1 /\ queries = <<>> /\ comments = <<>> /\ calls = <<>>
    /\ to_add = <<>> /\ to_remove = <<>> /\ rm = 1 /\ ret = "none"
    /\ FilterIdle /\ DeltasIdle /\ NoteIdle /\ MajorIdle /\ TopicIdle

\* variant: a directive that is not allowed gets its comment and the loop goes on
CheckDirective_ContinueAfterDeny ==
    /\ pc = "check"
    /\ \E status \in TeamMembership, posted \in BOOLEAN :
         LET name == input[idx].label
             r == check_filter(name, config, status)
             err == ErrOf(name, r)
         IN  /\ label' = name /\ is_member' = status /\ result' = r
             /\ queries' = Append(queries, [name |-> name, status |-> status])
             /\ IF err # <<>>
                THEN /\ comments' = IF posted THEN Append(comments, ErrorComment(err[1]))
                                    ELSE comments
                     /\ idx' = idx + 1
                     /\ IF idx = Len(input)
                        THEN /\ to_add' = compute_label_deltas(input).to_add
                             /\ to_remove' = compute_label_deltas(input).to_remove
                             /\ pc' = "add_labels"
                        ELSE UNCHANGED <<to_add, to_remove, pc>>
                     /\ UNCHANGED ret
                ELSE /\ posted
                     /\ idx' = idx + 1
                     /\ IF idx = Len(input)
                        THEN /\ to_add' = compute_label_deltas(input).to_add
                             /\ to_remove' = compute_label_deltas(input).to_remove
                             /\ pc' = "add_labels"
                        ELSE UNCHANGED <<to_add, to_remove, pc>>
                     /\ UNCHANGED <<comments, ret>>
    /\ UNCHANGED <<input, config, calls, rm, deltaVars, noteVars, majorVars, topicVars>>

\* variant: every directive is judged with the status of the first query
CheckDirective_StaleStatus ==
    /\ pc = "check"
    /\ \E status \in TeamMembership, posted \in BOOLEAN :
         LET name == input[idx].label
             r == check_filter(name, config,
                               IF queries = <<>> THEN status ELSE queries[1].status)
             err == ErrOf(name, r)
         IN  /\ label' = name /\ is_member' = status /\ result' = r
             /\ queries' = Append(queries, [name |-> name, status |-> status])
             /\ IF err # <<>>
                THEN /\ comments' = IF posted THEN Append(comments, ErrorComment(err[1]))
                                    ELSE comments
                     /\ ret' = IF posted THEN "Ok" ELSE "Err"
                     /\ pc' = "done"
                     /\ UNCHANGED <<idx, to_add, to_remove>>
                ELSE /\ posted
                     /\ idx' = idx + 1
                     /\ IF idx = Len(input)
                        THEN /\ to_add' = compute_label_deltas(input).to_add
                             /\ to_remove' = compute_label_deltas(input).to_remove
                             /\ pc' = "add_labels"
                        ELSE UNCHANGED <<to_add, to_remove, pc>>
                     /\ UNCHANGED <<comments, ret>>
    /\ UNCHANGED <<input, config, calls, rm, deltaVars, noteVars, majorVars, topicVars>>

\* variant: only the directives that survive the delta resolution are checked
CheckDirective_ResolveFirst ==
    /\ pc = "check"
    /\ \E status \in TeamMembership, posted \in BOOLEAN :
         LET name == input[idx].label
             d == compute_label_deltas(input)
             r == IF name \in {d.to_add[i] : i \in 1..Len(d.to_add)}
                               \cup {d.to_remove[i] : i \in 1..Len(d.to_remove)}
                  THEN check_filter(name, config, status)
                  ELSE Ok("Allow")
             err == ErrOf(name, r)
         IN  /\ label' = name /\ is_member' = status /\ result' = r
             /\ queries' = Append(queries, [name |-> name, status |-> status])
             /\ IF err # <<>>
                THEN /\ comments' = IF posted THEN Append(comments, ErrorComment(err[1]))
                                    ELSE comments
                     /\ ret' = IF posted THEN "Ok" ELSE "Err"
                     /\ pc' = "done"
                     /\ UNCHANGED <<idx, to_add, to_remove>>
                ELSE /\ posted
                     /\ idx' = idx + 1
                     /\ IF idx = Len(input)
                        THEN /\ to_add' = compute_label_deltas(input).to_add
                             /\ to_remove' = compute_label_deltas(input).to_remove
                             /\ pc' = "add_labels"
                        ELSE UNCHANGED <<to_add, to_remove, pc>>
                     /\ UNCHANGED <<comments, ret>>
    /\ UNCHANGED <<input, config, calls, rm, deltaVars, noteVars, majorVars, topicVars>>

\* lines 30-52: one iteration of `for delta in &input.0`, and the delta
\* resolution when the loop ends
CheckDirective ==
    /\ pc = "check"
    /\ \E status \in TeamMembership, posted \in BOOLEAN :
         LET name == input[idx].label
             r == check_filter(name, config, status)
             err == ErrOf(name, r)
         IN  /\ label' = name /\ is_member' = status /\ result' = r
             /\ queries' = Append(queries, [name |-> name, status |-> status])
             /\ IF err # <<>>
                THEN /\ comments' = IF posted THEN Append(comments, ErrorComment(err[1]))
                                    ELSE comments
                     /\ ret' = IF posted THEN "Ok" ELSE "Err"
                     /\ pc' = "done"
                     /\ UNCHANGED <<idx, to_add, to_remove>>
                ELSE /\ posted
                     /\ idx' = idx + 1
                     /\ IF idx = Len(input)
                        THEN /\ to_add' = compute_label_deltas(input).to_add
                             /\ to_remove' = compute_label_deltas(input).to_remove
                             /\ pc' = "add_labels"
                        ELSE UNCHANGED <<to_add, to_remove, pc>>
                     /\ UNCHANGED <<comments, ret>>
    /\ UNCHANGED <<input, config, calls, rm, deltaVars, noteVars, majorVars, topicVars>>

\* variant: a successful add_labels is confirmed with a comment
AddLabels_Confirm ==
    /\ pc = "add_labels"
    /\ \E outcome \in {"ok", "UnknownLabels", "error"}, posted \in BOOLEAN :
         /\ calls' = Append(calls, AddLabelsCall(to_add, outcome = "ok"))
         /\ IF outcome = "ok"
            THEN /\ posted
                 /\ pc' = IF to_remove = <<>> THEN "done" ELSE "remove_label"
                 /\ ret' = IF to_remove = <<>> THEN "Ok" ELSE ret
                 /\ comments' = Append(comments, [kind |-> "post_comment", body |-> <<"Ok">>])
            ELSE /\ outcome = "error" => posted
                 /\ comments' = IF outcome = "UnknownLabels" /\ posted
                                THEN Append(comments, UnknownLabelsComment)
                                ELSE comments
                 /\ ret' = "Err"
                 /\ pc' = "done"
    /\ UNCHANGED <<input, config, idx, queries, to_add, to_remove, rm, filterVars, deltaVars,
                   noteVars, majorVars, topicVars>>

\* lines 54-75: add_labels, and the comment on UnknownLabels
AddLabels ==
    /\ pc = "add_labels"
    /\ \E outcome \in {"ok", "UnknownLabels", "error"}, posted \in BOOLEAN :
         /\ calls' = Append(calls, AddLabelsCall(to_add, outcome = "ok"))
         /\ IF outcome = "ok"
            THEN /\ posted
                 /\ pc' = IF to_remove = <<>> THEN "done" ELSE "remove_label"
                 /\ ret' = IF to_remove = <<>> THEN "Ok" ELSE ret
                 /\ UNCHANGED comments
            ELSE /\ outcome = "error" => posted
                 /\ comments' = IF outcome = "UnknownLabels" /\ posted
                                THEN Append(comments, UnknownLabelsComment)
                                ELSE comments
                 /\ ret' = "Err"
                 /\ pc' = "done"
    /\ UNCHANGED <<input, config, idx, queries, to_add, to_remove, rm, filterVars, deltaVars,
                   noteVars, majorVars, topicVars>>

\* variant: a failed remove_label does not end the loop
RemoveLabel_ContinueAfterFailure ==
    /\ pc = "remove_label"
    /\ \E ok \in BOOLEAN :
         /\ calls' = Append(calls, RemoveLabelCall(to_remove[rm], ok))
         /\ IF rm = Len(to_remove)
            THEN ret' = (IF ok THEN "Ok" ELSE "Err") /\ pc' = "done" /\ UNCHANGED rm
            ELSE rm' = rm + 1 /\ UNCHANGED <<ret, pc>>
    /\ UNCHANGED <<input, config, idx, queries, comments, to_add, to_remove,
                   filterVars, deltaVars, noteVars, majorVars, topicVars>>

\* lines 77-94: one iteration of `for label in to_remove`, and the final Ok(())
RemoveLabel ==
    /\ pc = "remove_label"
    /\ \E ok \in BOOLEAN :
         /\ calls' = Append(calls, RemoveLabelCall(to_remove[rm], ok))
         /\ IF ~ok
            THEN ret' = "Err" /\ pc' = "done" /\ UNCHANGED rm
            ELSE IF rm = Len(to_remove)
            THEN ret' = "Ok" /\ pc' = "done" /\ UNCHANGED rm
            ELSE rm' = rm + 1 /\ UNCHANGED <<ret, pc>>
    /\ UNCHANGED <<input, config, idx, queries, comments, to_add, to_remove,
                   filterVars, deltaVars, noteVars, majorVars, topicVars>>

NextRelabel == CheckDirective \/ AddLabels \/ RemoveLabel

SpecRelabel == InitRelabel /\ [][NextRelabel]_vars

----------------------------------------------------------------------------
(* The tokenizer NoteCommand::parse reads from (parser::token, specified   *)
(* in sections 3 and 4.1 of the specification).  A tokenizer over a text   *)
(* is its offset: the number of characters already consumed.               *)

DQUOTE == "\""
BACKSLASH == "\\"

IsAsciiWhitespace(c) == c \in {" ", "\t", "\n", "\r"}

NoToken(p) == [kind |-> "None", text |-> <<>>, pos |-> p]
WordToken(w, p) == [kind |-> "Word", text |-> w, pos |-> p]
QuoteToken(q, p) == [kind |-> "Quote", text |-> q, pos |-> p]
\* a LexError, anchored at offset p
LexError(p) == [kind |-> "LexError", text |-> <<>>, pos |-> p]

\* the offset after the run of whitespace at offset p
RECURSIVE SkipWhitespace(_, _)
SkipWhitespace(text, p) ==
    IF p < Len(text) /\ IsAsciiWhitespace(text[p + 1])
    THEN SkipWhitespace(text, p + 1) ELSE p

\* the offset after the maximal run of non-whitespace, non-quote characters at p
RECURSIVE WordEnd(_, _)
WordEnd(text, p) ==
    IF p < Len(text) /\ ~IsAsciiWhitespace(text[p + 1]) /\ text[p + 1] # DQUOTE
    THEN WordEnd(text, p + 1) ELSE p

\* the quoted text from offset p (just after the opening delimiter at `open`)
\* to the first unescaped closing delimiter, escape sequences resolved
RECURSIVE QuoteScan(_, _, _, _)
QuoteScan(text, open, p, acc) ==
    IF p >= Len(text) THEN LexError(open)
    ELSE IF text[p + 1] = DQUOTE THEN QuoteToken(acc, p + 1)
    ELSE IF text[p + 1] = BACKSLASH
         THEN IF p + 1 >= Len(text) THEN LexError(open)
              ELSE QuoteScan(text, open, p + 2, Append(acc, text[p + 2]))
    ELSE QuoteScan(text, open, p + 1, Append(acc, text[p + 1]))

\* Tokenizer::next_token at offset p: the token and the offset after it
next_token(text, p) ==
    LET q == SkipWhitespace(text, p) IN
    IF q >= Len(text) THEN NoToken(q)
    ELSE IF text[q + 1] = DQUOTE THEN QuoteScan(text, q, q + 1, <<>>)
    ELSE WordToken(SubSeq(text, q + 1, WordEnd(text, q)), WordEnd(text, q))

\* Tokenizer::peek_token: the next token, the tokenizer staying where it is
peek_token(text, p) == [next_token(text, p) EXCEPT !.pos = p]

----------------------------------------------------------------------------
(* NoteCommand::parse. *)

NOTE == <<"n", "o", "t", "e">>
REMOVE == <<"r", "e", "m", "o", "v", "e">>

\* Result<Option<NoteCommand>, Error>: Ok(None), Ok(Some(Summary{title})),
\* Ok(Some(Remove{title})), or Err(error at position)
OkNone == [tag |-> "None", title |-> <<>>, error |-> "", position |-> 0]
OkSome(variant, title) == [tag |-> variant, title |-> title, error |-> "", position |-> 0]
ParseErr(error, position) ==
    [tag |-> "Err", title |-> <<>>, error |-> error, position |-> position]

\* variant: the clone is written back to the caller's tokenizer on every return
Parsed_WriteBack(res, inputPos, toksPos) ==
    [res |-> res, input |-> toksPos, toks |-> toksPos]

\* what parse hands back: the Result, the caller's tokenizer and the clone
Parsed(res, inputPos, toksPos) == [res |-> res, input |-> inputPos, toks |-> toksPos]

\* variant: every `remove` flips the flag
RECURSIVE NoteLoop_RemoveToggles(_, _, _, _)
NoteLoop_RemoveToggles(text, inputPos, toks, remove) ==
    LET t == next_token(text, toks) IN
    IF t.kind = "LexError"
    THEN Parsed(ParseErr("UnterminatedQuote", t.pos), inputPos, toks)
    ELSE IF t.kind = "Word" /\ t.text = REMOVE
    THEN NoteLoop_RemoveToggles(text, inputPos, t.pos, ~remove)
    ELSE IF t.kind \in {"Quote", "Word"}
    THEN Parsed(OkSome(IF remove THEN "Remove" ELSE "Summary", t.text), inputPos, t.pos)
    ELSE Parsed(ParseErr("MissingTitle", t.pos), inputPos, t.pos)

\* variant: a bare `remove` at the end of the input is taken as the title
RECURSIVE NoteLoop_LastRemoveIsTitle(_, _, _, _)
NoteLoop_LastRemoveIsTitle(text, inputPos, toks, remove) ==
    LET t == next_token(text, toks) IN
    IF t.kind = "LexError"
    THEN Parsed(ParseErr("UnterminatedQuote", t.pos), inputPos, toks)
    ELSE IF t.kind = "Word" /\ t.text = REMOVE /\ next_token(text, t.pos).kind # "None"
    THEN NoteLoop_LastRemoveIsTitle(text, inputPos, t.pos, TRUE)
    ELSE IF t.kind \in {"Quote", "Word"}
    THEN Parsed(OkSome(IF remove THEN "Remove" ELSE "Summary", t.text), inputPos, t.pos)
    ELSE Parsed(ParseErr("MissingTitle", t.pos), inputPos, t.pos)

\* the `loop` of lines 30-60 with the clone at offset toks
RECURSIVE NoteLoop(_, _, _, _)
NoteLoop(text, inputPos, toks, remove) ==
    LET t == next_token(text, toks) IN
    IF t.kind = "LexError"
    THEN Parsed(ParseErr("UnterminatedQuote", t.pos), inputPos, toks)
    ELSE IF t.kind = "Word" /\ t.text = REMOVE
    THEN NoteLoop(text, inputPos, t.pos, TRUE)
    ELSE IF t.kind \in {"Quote", "Word"}
    THEN Parsed(OkSome(IF remove THEN "Remove" ELSE "Summary", t.text), inputPos, t.pos)
    ELSE Parsed(ParseErr("MissingTitle", t.pos), inputPos, t.pos)

\* variant: a lexical error on the first token declines
NoteParse_SwallowLexError(text, inputPos) ==
    LET toks == inputPos
        first == peek_token(text, toks)
    IN  IF first.kind = "Word" /\ first.text = NOTE
        THEN NoteLoop(text, inputPos, next_token(text, toks).pos, FALSE)
        ELSE Parsed(OkNone, inputPos, toks)

\* variant: the keyword is compared without regard to letter case
NoteParse_AnyCase(text, inputPos) ==
    LET toks == inputPos
        first == peek_token(text, toks)
    IN  IF first.kind = "LexError"
        THEN Parsed(ParseErr("UnterminatedQuote", next_token(text, toks).pos),
                    inputPos, toks)
        ELSE IF /\ first.kind = "Word"
                /\ [i \in 1..Len(first.text) |-> ToAsciiLowercase(first.text[i])] = NOTE
        THEN NoteLoop(text, inputPos, next_token(text, toks).pos, FALSE)
        ELSE Parsed(OkNone, inputPos, toks)

\* NoteCommand::parse on a caller's tokenizer at offset inputPos
NoteParse(text, inputPos) ==
    LET toks == inputPos
        first == peek_token(text, toks)
    IN  IF first.kind = "LexError"
        THEN Parsed(ParseErr("UnterminatedQuote", next_token(text, toks).pos),
                    inputPos, toks)
        ELSE IF first.kind = "Word" /\ first.text = NOTE
        THEN NoteLoop(text, inputPos, next_token(text, toks).pos, FALSE)
        ELSE Parsed(OkNone, inputPos, toks)

----------------------------------------------------------------------------
(* Specification of NoteCommand::parse: one call on every text, with the   *)
(* caller's tokenizer at any offset it can reach from the start.           *)

SPACE == " "

\* note, remove, "a b", x, ", Note, "remove", NOTE, "note", "a\"b"
SegmentPool ==
    <<NOTE, REMOVE, <<DQUOTE, "a", SPACE, "b", DQUOTE>>, <<"x">>, <<DQUOTE>>,
      <<"N", "o", "t", "e">>, <<DQUOTE>> \o REMOVE \o <<DQUOTE>>,
      <<"N", "O", "T", "E">>, <<DQUOTE>> \o NOTE \o <<DQUOTE>>,
      <<DQUOTE, "a", BACKSLASH, DQUOTE, "b", DQUOTE>>>>
Segments == {SegmentPool[i] : i \in 1..Min(NumSegments, Len(SegmentPool))}

\* the segments of a list, separated by one space
RECURSIVE Joined(_)
Joined(segs) ==
    IF segs = <<>> THEN <<>>
    ELSE IF Len(segs) = 1 THEN segs[1]
    ELSE segs[1] \o <<SPACE>> \o Joined(Tail(segs))

\* texts of the parser's documented cases that the pool does not reach
ExtraTexts ==
    {Joined(<<NOTE, SegmentPool[7]>>),
     Joined(<<NOTE, REMOVE, SegmentPool[7]>>),
     Joined(<<NOTE, REMOVE, REMOVE, REMOVE, SegmentPool[3], <<"x">>>>),
     Joined(<<SegmentPool[8], <<"x">>>>),
     Joined(<<SegmentPool[9], <<"x">>>>),
     Joined(<<NOTE, SegmentPool[10]>>),
     <<SPACE, SPACE>> \o NOTE \o <<SPACE, SPACE>>,
     NOTE \o SegmentPool[3] \o <<"x">>}

NoteTexts ==
    {Joined(segs) : segs \in SeqsUpTo(Segments, MaxSegments)} \cup ExtraTexts

\* the offsets a tokenizer reaches from offset p by successive next_token calls
RECURSIVE ReachableOffsets(_, _)
ReachableOffsets(text, p) ==
    LET t == next_token(text, p) IN
    IF t.kind \in {"None", "LexError"} THEN {p}
    ELSE {p} \cup ReachableOffsets(text, t.pos)

InitNote ==
    /\ note_text \in NoteTexts
    /\ note_start \in ReachableOffsets(note_text, 0)
    /\ note_input = note_start
    /\ note_toks = note_start
    /\ note_result = <<>>
    /\ config = <<>>
    /\ FilterIdle /\ DeltasIdle /\ RelabelIdle /\ MajorIdle /\ TopicIdle

CallNoteParse ==
    /\ note_result = <<>>
    /\ LET r == NoteParse(note_text, note_input)
       IN  /\ note_result' = <<r.res>>
           /\ note_input' = r.input
           /\ note_toks' = r.toks
    /\ UNCHANGED <<note_text, note_start, config, filterVars, deltaVars, relabelVars,
                   majorVars, topicVars>>

NextNote == CallNoteParse

SpecNote == InitNote /\ [][NextNote]_vars

----------------------------------------------------------------------------
(* zulip_topic_from_issue (major_change.rs).  A String is its sequence of  *)
(* chars; a char of more than one byte is written as a longer name.        *)

ELLIPSIS == "<ellipsis>"
E_ACUTE == "<e-acute>"

\* len_utf8 of a char
Utf8Len(c) == IF c = ELLIPSIS THEN 3 ELSE IF c = E_ACUTE THEN 2 ELSE 1

\* the byte offset of the i-th char of s (i = 1 is the first char)
RECURSIVE ByteOffset(_, _)
ByteOffset(s, i) == IF i <= 1 THEN 0 ELSE ByteOffset(s, i - 1) + Utf8Len(s[i - 1])

\* str::char_indices: the (byte offset, char) pairs of s
CharIndices(s) == [i \in 1..Len(s) |-> [offset |-> ByteOffset(s, i), ch |-> s[i]]]

\* Iterator::skip(n)
Skip(it, n) == IF n >= Len(it) THEN <<>> ELSE SubSeq(it, n + 1, Len(it))

\* &s[..len] for a len on a char boundary: the chars that start before byte len
ByteSlice(s, len) ==
    SubSeq(s, 1, Cardinality({i \in 1..Len(s) : ByteOffset(s, i) < len}))

ZulipTopicLimit == 60

TopicOk(t) == [kind |-> "Ok", topic |-> t]
TopicPanic == [kind |-> "Panic", topic |-> <<>>]

\* zulip_topic_from_issue of an issue with this title and topic reference.
\* `60 - count - 2` is usize arithmetic: when it goes below zero a build with
\* overflow checks panics ("attempt to subtract with overflow") and a build
\* without them wraps to a count above 2^64 - 2^32, which skips every char.
zulip_topic_from_issue(title, topic_ref, overflow_checks) ==
    LET n == ZulipTopicLimit - Len(topic_ref) - 2
        untruncated == TopicOk(title \o <<" ">> \o topic_ref)
    IN  IF n < 0
        THEN IF overflow_checks THEN TopicPanic ELSE untruncated
        ELSE LET chars == Skip(CharIndices(title), n) IN
             IF chars # <<>> /\ Tail(chars) # <<>>
             THEN TopicOk(ByteSlice(title, chars[1].offset) \o <<ELLIPSIS, " ">> \o topic_ref)
             ELSE untruncated

----------------------------------------------------------------------------
(* Specification of zulip_topic_from_issue: one call on every issue. *)

\* a title of n chars, the k-th of which (if k > 0) takes two bytes
TitleOf(n, k) == [i \in 1..n |-> IF i = k THEN E_ACUTE ELSE "t"]
Titles == {TitleOf(n, k) : n \in 0..MaxTitleLen, k \in {0, 1, 2}}
            \cup {TitleOf(n, n - j) : n \in 3..MaxTitleLen, j \in 0..2}

\* a topic reference of r chars: r...r#1
RefOf(r) == [i \in 1..r |-> IF i = r THEN "1" ELSE IF i = r - 1 THEN "#" ELSE "r"]
TopicRefs == {RefOf(r) : r \in {2, 10, 30} \cup (MaxRefLen - 4)..MaxRefLen}

InitTopic ==
    /\ zt_issue \in [title : Titles, topic_ref : TopicRefs]
    /\ zt_topic = <<>>
    /\ config = <<>>
    /\ FilterIdle /\ DeltasIdle /\ RelabelIdle /\ NoteIdle /\ MajorIdle

CallZulipTopicFromIssue ==
    /\ zt_topic = <<>>
    /\ \E overflow_checks \in BOOLEAN :
          zt_topic' = <<zulip_topic_from_issue(zt_issue.title, zt_issue.topic_ref,
                                               overflow_checks)>>
    /\ UNCHANGED <<zt_issue, config, filterVars, deltaVars, relabelVars, noteVars, majorVars>>

NextTopic == CallZulipTopicFromIssue

SpecTopic == InitTopic /\ [][NextTopic]_vars

----------------------------------------------------------------------------
(* major_change.rs: parse_input, handle_input, handle_command and handle.  *)
(* Label names are compared as whole strings and are TLA+ strings here.    *)

\* Invocation; prev_title is the title of Rename's prev_issue
Invocation(kind, prev) == [kind |-> kind, prev_title |-> prev]
NoInvocation == Invocation("None", <<>>)

\* event.issue.labels().iter().any(|l| l.name == name)
HasLabel(event, name) == name \in event.labels

\* parse_input with `Opened` treated like `Reopened`
parse_input_OpenedToo(event, cfg) ==
    IF cfg = <<>> THEN NoInvocation
    ELSE LET c == cfg[1] IN
    IF event.action = "Edited" /\ event.changes = "None" THEN NoInvocation
    ELSE IF event.action = "Edited" /\ event.changes = "Title"
    THEN IF HasLabel(event, c.enabling_label)
         THEN Invocation("Rename", event.prev_title)
         ELSE NoInvocation
    ELSE IF event.action = "Labeled" /\ event.label = c.accept_label
    THEN Invocation("AcceptedProposal", <<>>)
    ELSE IF event.action = "Labeled" /\ <<event.label>> = c.concerns_label
    THEN Invocation("ConcernsAdded", <<>>)
    ELSE IF event.action = "Unlabeled" /\ event.label # "<none>"
            /\ <<event.label>> = c.concerns_label
    THEN Invocation("ConcernsResolved", <<>>)
    ELSE IF \/ event.action \in {"Reopened", "Opened"} /\ HasLabel(event, c.enabling_label)
            \/ event.action = "Labeled" /\ event.label = c.enabling_label
    THEN Invocation("NewProposal", <<>>)
    ELSE NoInvocation

\* parse_input: the Option<Invocation> inside the Ok it always returns
parse_input(event, cfg) ==
    IF cfg = <<>> THEN NoInvocation
    ELSE LET c == cfg[1] IN
    IF event.action = "Edited" /\ event.changes = "None" THEN NoInvocation
    ELSE IF event.action = "Edited" /\ event.changes = "Title"
    THEN IF HasLabel(event, c.enabling_label)
         THEN Invocation("Rename", event.prev_title)
         ELSE NoInvocation
    ELSE IF event.action = "Labeled" /\ event.label = c.accept_label
    THEN Invocation("AcceptedProposal", <<>>)
    ELSE IF event.action = "Labeled" /\ <<event.label>> = c.concerns_label
    THEN Invocation("ConcernsAdded", <<>>)
    ELSE IF event.action = "Unlabeled" /\ event.label # "<none>"
            /\ <<event.label>> = c.concerns_label
    THEN Invocation("ConcernsResolved", <<>>)
    ELSE IF \/ event.action = "Reopened" /\ HasLabel(event, c.enabling_label)
            \/ event.action = "Labeled" /\ event.label = c.enabling_label
    THEN Invocation("NewProposal", <<>>)
    ELSE NoInvocation

\* a request to GitHub or Zulip: res is its outcome, "issued" while the
\* request is one of the two futures of `join!`
Request(op, arg, topic, res) == [op |-> op, arg |-> arg, topic |-> topic, res |-> res]

NotReadyMessage(c) ==
    <<"This issue is not ready for proposals; it lacks the label", c.enabling_label>>
CannotBeSecondedMessage(c) ==
    <<"This issue cannot be seconded; it lacks the label", c.enabling_label>>
OnlyTeamMembersMessage == <<"Only team members can second issues.">>

\* ErrorComment::new(issue, msg).post(..).await
PostErrorComment(msg, posted) ==
    Request("ErrorComment", msg, <<>>, IF posted THEN "ok" ELSE "err")

\* the reference of the issues of the model: r#1
IssueRef == RefOf(3)
ZulipTopic(title) == zulip_topic_from_issue(title, IssueRef, TRUE).topic

\* zulip_msg of handle_input, by Invocation
ZulipMsgOf(event, c, cmd) ==
    CASE cmd.kind = "NewProposal" -> <<"A new proposal has been announced">>
      [] cmd.kind = "AcceptedProposal" -> <<"This proposal has been accepted">>
      [] cmd.kind = "ConcernsAdded" -> <<"Concern(s) have been raised">>
      [] OTHER -> IF HasLabel(event, c.second_label)
                  THEN <<"All concerns have been resolved", "will be approved in 10 days">>
                  ELSE <<"All concerns have been resolved">>
SecondedMsg == <<"Proposal has been seconded">>

\* the Result of handle once both futures of `join!` are complete (lines 339-345)
JoinResult(gh, zulip) ==
    IF zulip = "err" THEN "Err: zulip post failed"
    ELSE IF gh = "err" THEN "Err: label setting failed"
    ELSE "Ok"

\* handle, from its call to its first suspension in `join!` or `zulip_req.await`,
\* after the requests of `log`; label_to_add is <<>> for None, <<name>> for Some(name)
Handle(log, label_to_add, zulip_msg, new_proposal) ==
    \E posted \in BOOLEAN :
        LET topic == ZulipTopic(mc_event.title)
            comment == IF new_proposal
                       THEN <<Request("post_comment", <<"This issue is not meant for discussion">>,
                                      topic, IF posted THEN "ok" ELSE "err")>>
                       ELSE <<>>
            send == Request("zulip_send", zulip_msg, topic, "issued")
        IN  IF new_proposal /\ ~posted
            THEN /\ mc_log' = log \o comment
                 /\ mc_ret' = "Err: post major change comment"
                 /\ mc_pc' = "done"
                 /\ UNCHANGED <<mc_gh, mc_zulip>>
            ELSE /\ ~new_proposal => posted
                 /\ mc_log' = log \o comment \o
                       (IF label_to_add # <<>>
                        THEN <<Request("add_labels", <<label_to_add[1]>>, <<>>, "issued"), send>>
                        ELSE <<send>>)
                 /\ mc_gh' = IF label_to_add # <<>> THEN "pending" ELSE "none"
                 /\ mc_zulip' = "pending"
                 /\ mc_pc' = "join"
                 /\ UNCHANGED mc_ret

----------------------------------------------------------------------------
(* Specification of major_change: one call of parse_input, handle_input or *)
(* handle_command; GitHub, Zulip and the team lookup answer as they please. *)

EventLabelPool ==
    <<"major-change", "major-change-accepted", "has-concerns", "final-comment-period",
      "T-compiler", "to-announce">>
EventLabels == {EventLabelPool[i] : i \in 1..Min(NumEventLabels, Len(EventLabelPool))}
IssueLabelPool == <<"major-change", "final-comment-period", "has-concerns", "to-announce">>
IssueLabels == {IssueLabelPool[i] : i \in 1..Min(NumIssueLabels, Len(IssueLabelPool))}

NewTitle == <<"n", "e", "w">>
OldTitle == <<"o", "l", "d">>

MajorChangeConfigs ==
    [enabling_label : {"major-change"},
     accept_label : {"major-change-accepted", "major-change"},
     concerns_label : {<<>>, <<"has-concerns">>, <<"major-change">>},
     second_label : {"final-comment-period"},
     meeting_label : {"to-announce"}]

Invocations ==
    {Invocation(k, <<>>) : k \in {"NewProposal", "AcceptedProposal", "ConcernsAdded",
                                 "ConcernsResolved"}}
        \cup {Invocation("Rename", OldTitle)}

\* IssuesEvent: the action (with its label), `changes` and the issue
IssuesEvents ==
    {[action |-> a[1], label |-> a[2], changes |-> a[3], labels |-> ls,
      title |-> NewTitle, prev_title |-> IF a[3] = "Title" THEN OldTitle ELSE <<>>] :
        a \in {<<"Opened", "<none>", "None">>, <<"Reopened", "<none>", "None">>,
               <<"Closed", "<none>", "None">>, <<"Unlabeled", "<none>", "None">>,
               <<"Edited", "<none>", "None">>, <<"Edited", "<none>", "NoTitle">>,
               <<"Edited", "<none>", "Title">>}
              \cup {<<"Labeled", l, "None">> : l \in EventLabels}
              \cup {<<"Unlabeled", l, "None">> : l \in EventLabels},
        ls \in SUBSET IssueLabels}

\* the issue-comment Event of a `second` command
CommentEvents ==
    {[action |-> "IssueComment", label |-> "<none>", changes |-> "None", labels |-> ls,
      title |-> NewTitle, prev_title |-> <<>>] : ls \in SUBSET IssueLabels}

InitMajorChange ==
    /\ \/ /\ mc_entry = "parse_input"
          /\ mc_config \in {<<>>} \cup {<<c>> : c \in MajorChangeConfigs}
          /\ mc_event \in IssuesEvents
          /\ mc_cmd = NoInvocation
       \/ /\ mc_entry = "handle_input"
          /\ mc_config \in {<<c>> : c \in MajorChangeConfigs}
          /\ mc_event \in IssuesEvents
          /\ mc_cmd \in Invocations
       \/ /\ mc_entry = "handle_command"
          /\ mc_config \in {<<c>> : c \in MajorChangeConfigs}
          /\ mc_event \in CommentEvents
          /\ mc_cmd = NoInvocation
    /\ mc_pc = "start" /\ mc_log = <<>> /\ mc_gh = "none" /\ mc_zulip = "none"
    /\ mc_ret = "none"
    /\ config = <<>>
    /\ FilterIdle /\ DeltasIdle /\ RelabelIdle /\ NoteIdle /\ TopicIdle

\* lines 21-95
ParseInput ==
    /\ mc_entry = "parse_input" /\ mc_pc = "start"
    /\ mc_cmd' = parse_input(mc_event, mc_config)
    /\ mc_ret' = "Ok"
    /\ mc_pc' = "done"
    /\ UNCHANGED <<mc_entry, mc_config, mc_event, mc_log, mc_gh, mc_zulip, config,
                   filterVars, deltaVars, relabelVars, noteVars, topicVars>>

\* variant: the enabling label is not required of a Rename
HandleInput_RenameUnchecked ==
    /\ mc_entry = "handle_input" /\ mc_pc = "start"
    /\ LET c == mc_config[1] IN
       IF ~HasLabel(mc_event, c.enabling_label) /\ mc_cmd.kind # "Rename"
       THEN \E posted \in BOOLEAN :
               /\ mc_log' = <<PostErrorComment(NotReadyMessage(c), posted)>>
               /\ mc_ret' = IF posted THEN "Ok" ELSE "Err: post error comment"
               /\ mc_pc' = "done"
               /\ UNCHANGED <<mc_gh, mc_zulip>>
       ELSE IF mc_cmd.kind = "Rename"
       THEN \E failed \in 0..3 :
               LET prev_topic == ZulipTopic(mc_cmd.prev_title)
                   new_topic == ZulipTopic(mc_event.title)
                   Res(i) == IF i = failed THEN "err" ELSE "ok"
                   reqs == <<Request("zulip_send", <<"Renaming this Zulip topic.">>,
                                     prev_topic, Res(1)),
                             Request("zulip_update", <<"change_all">>, new_topic, Res(2)),
                             Request("zulip_send", <<"Please see the renamed Zulip topic">>,
                                     prev_topic, Res(3))>>
               IN  /\ mc_log' = IF failed = 0 THEN reqs ELSE SubSeq(reqs, 1, failed)
                   /\ mc_ret' = CASE failed = 0 -> "Ok"
                                  [] failed = 2 -> "Err: zulip message update failed"
                                  [] OTHER -> "Err: zulip post failed"
                   /\ mc_pc' = "done"
                   /\ UNCHANGED <<mc_gh, mc_zulip>>
       ELSE Handle(<<>>,
                   IF mc_cmd.kind \in {"NewProposal", "AcceptedProposal"}
                   THEN <<c.meeting_label>> ELSE <<>>,
                   ZulipMsgOf(mc_event, c, mc_cmd),
                   mc_cmd.kind = "NewProposal")
    /\ UNCHANGED <<mc_entry, mc_config, mc_event, mc_cmd, config, filterVars, deltaVars,
                   relabelVars, noteVars, topicVars>>

\* lines 97-222: handle_input up to the first suspension of handle; the
\* three Zulip requests of a Rename are awaited one after the other
HandleInput ==
    /\ mc_entry = "handle_input" /\ mc_pc = "start"
    /\ LET c == mc_config[1] IN
       IF ~HasLabel(mc_event, c.enabling_label)
       THEN \E posted \in BOOLEAN :
               /\ mc_log' = <<PostErrorComment(NotReadyMessage(c), posted)>>
               /\ mc_ret' = IF posted THEN "Ok" ELSE "Err: post error comment"
               /\ mc_pc' = "done"
               /\ UNCHANGED <<mc_gh, mc_zulip>>
       ELSE IF mc_cmd.kind = "Rename"
       THEN \E failed \in 0..3 :
               LET prev_topic == ZulipTopic(mc_cmd.prev_title)
                   new_topic == ZulipTopic(mc_event.title)
                   Res(i) == IF i = failed THEN "err" ELSE "ok"
                   reqs == <<Request("zulip_send", <<"Renaming this Zulip topic.">>,
                                     prev_topic, Res(1)),
                             Request("zulip_update", <<"change_all">>, new_topic, Res(2)),
                             Request("zulip_send", <<"Please see the renamed Zulip topic">>,
                                     prev_topic, Res(3))>>
               IN  /\ mc_log' = IF failed = 0 THEN reqs ELSE SubSeq(reqs, 1, failed)
                   /\ mc_ret' = CASE failed = 0 -> "Ok"
                                  [] failed = 2 -> "Err: zulip message update failed"
                                  [] OTHER -> "Err: zulip post failed"
                   /\ mc_pc' = "done"
                   /\ UNCHANGED <<mc_gh, mc_zulip>>
       ELSE Handle(<<>>,
                   IF mc_cmd.kind \in {"NewProposal", "AcceptedProposal"}
                   THEN <<c.meeting_label>> ELSE <<>>,
                   ZulipMsgOf(mc_event, c, mc_cmd),
                   mc_cmd.kind = "NewProposal")
    /\ UNCHANGED <<mc_entry, mc_config, mc_event, mc_cmd, config, filterVars, deltaVars,
                   relabelVars, noteVars, topicVars>>

\* variant: a failed team lookup counts as membership (unwrap_or(true))
HandleCommand_FailOpen ==
    /\ mc_entry = "handle_command" /\ mc_pc = "start"
    /\ LET c == mc_config[1] IN
       IF ~HasLabel(mc_event, c.enabling_label)
       THEN \E posted \in BOOLEAN :
               /\ mc_log' = <<PostErrorComment(CannotBeSecondedMessage(c), posted)>>
               /\ mc_ret' = IF posted THEN "Ok" ELSE "Err: post error comment"
               /\ mc_pc' = "done"
               /\ UNCHANGED <<mc_gh, mc_zulip>>
       ELSE \E lookup \in {"true", "false", "error"} :
               LET query == Request("is_team_member", <<>>, <<>>, lookup)
                   is_team_member == lookup \in {"true", "error"}
               IN  IF ~is_team_member
                   THEN \E posted \in BOOLEAN :
                           /\ mc_log' = <<query, PostErrorComment(OnlyTeamMembersMessage, posted)>>
                           /\ mc_ret' = IF posted THEN "Ok" ELSE "Err: post error comment"
                           /\ mc_pc' = "done"
                           /\ UNCHANGED <<mc_gh, mc_zulip>>
                   ELSE Handle(<<query>>, <<c.second_label>>, SecondedMsg, FALSE)
    /\ UNCHANGED <<mc_entry, mc_config, mc_event, mc_cmd, config, filterVars, deltaVars,
                   relabelVars, noteVars, topicVars>>

\* lines 224-277: handle_command up to the first suspension of handle
HandleCommand ==
    /\ mc_entry = "handle_command" /\ mc_pc = "start"
    /\ LET c == mc_config[1] IN
       IF ~HasLabel(mc_event, c.enabling_label)
       THEN \E posted \in BOOLEAN :
               /\ mc_log' = <<PostErrorComment(CannotBeSecondedMessage(c), posted)>>
               /\ mc_ret' = IF posted THEN "Ok" ELSE "Err: post error comment"
               /\ mc_pc' = "done"
               /\ UNCHANGED <<mc_gh, mc_zulip>>
       ELSE \E lookup \in {"true", "false", "error"} :
               LET query == Request("is_team_member", <<>>, <<>>, lookup)
                   is_team_member == lookup = "true"
               IN  IF ~is_team_member
                   THEN \E posted \in BOOLEAN :
                           /\ mc_log' = <<query, PostErrorComment(OnlyTeamMembersMessage, posted)>>
                           /\ mc_ret' = IF posted THEN "Ok" ELSE "Err: post error comment"
                           /\ mc_pc' = "done"
                           /\ UNCHANGED <<mc_gh, mc_zulip>>
                   ELSE Handle(<<query>>, <<c.second_label>>, SecondedMsg, FALSE)
    /\ UNCHANGED <<mc_entry, mc_config, mc_event, mc_cmd, config, filterVars, deltaVars,
                   relabelVars, noteVars, topicVars>>

\* the github_req future of `join!` completes
GithubCompletes ==
    /\ mc_pc = "join" /\ mc_gh = "pending"
    /\ \E ok \in BOOLEAN :
          /\ mc_gh' = IF ok THEN "ok" ELSE "err"
          /\ IF mc_zulip # "pending"
             THEN mc_pc' = "done" /\ mc_ret' = JoinResult(mc_gh', mc_zulip)
             ELSE UNCHANGED <<mc_pc, mc_ret>>
    /\ UNCHANGED <<mc_entry, mc_config, mc_event, mc_cmd, mc_log, mc_zulip, config,
                   filterVars, deltaVars, relabelVars, noteVars, topicVars>>

\* variant: a failed Zulip request ends handle at once (try_join!)
ZulipCompletes_ShortCircuit ==
    /\ mc_pc = "join" /\ mc_zulip = "pending"
    /\ \E ok \in BOOLEAN :
          /\ mc_zulip' = IF ok THEN "ok" ELSE "err"
          /\ IF mc_gh # "pending" \/ ~ok
             THEN mc_pc' = "done" /\ mc_ret' = JoinResult(mc_gh, mc_zulip')
             ELSE UNCHANGED <<mc_pc, mc_ret>>
    /\ UNCHANGED <<mc_entry, mc_config, mc_event, mc_cmd, mc_log, mc_gh, config, filterVars,
                   deltaVars, relabelVars, noteVars, topicVars>>

\* the zulip_req future completes, in `join!` or in `zulip_req.await`
ZulipCompletes ==
    /\ mc_pc = "join" /\ mc_zulip = "pending"
    /\ \E ok \in BOOLEAN :
          /\ mc_zulip' = IF ok THEN "ok" ELSE "err"
          /\ IF mc_gh # "pending"
             THEN mc_pc' = "done" /\ mc_ret' = JoinResult(mc_gh, mc_zulip')
             ELSE UNCHANGED <<mc_pc, mc_ret>>
    /\ UNCHANGED <<mc_entry, mc_config, mc_event, mc_cmd, mc_log, mc_gh, config, filterVars,
                   deltaVars, relabelVars, noteVars, topicVars>>

NextMajorChange ==
    ParseInput \/ HandleInput \/ HandleCommand \/ GithubCompletes \/ ZulipCompletes

SpecMajorChange == InitMajorChange /\ [][NextMajorChange]_vars

----------------------------------------------------------------------------
(* Properties of check_filter (SpecFilter). *)

WellFormed(pattern) == PatternNew(GlobPart(pattern)).ok
AllWellFormed(acl) == \A i \in 1..Len(acl) : WellFormed(acl[i])
Called == result # NotCalled
NonMember == is_member \in {"Outsider", "Unknown"}
MatchAt(i) == match_pattern(config[i], label)
DenyOf(member) == IF member = "Outsider" THEN Ok("Deny") ELSE Ok("DenyUnknown")

\* the orderings of an ACL
Reorderings(acl) ==
    {[i \in 1..Len(acl) |-> acl[f[i]]] :
        f \in {g \in [1..Len(acl) -> 1..Len(acl)] :
                  \A i, j \in 1..Len(acl) : g[i] = g[j] => i = j}}

\* C1: for a Member check_filter returns Allow whatever the label and the ACL,
\* also when a negated pattern matches the label or a pattern is malformed.
C1_MemberBypassesAcl ==
    (Called /\ is_member = "Member") => result = Ok("Allow")

C1_Witness ==
    /\ Called /\ is_member = "Member"
    /\ \E i, j \in 1..Len(config) : MatchAt(i) = "Deny" /\ MatchAt(j) = "Err"

\* C2: for a non-Member, once the scan reaches a negated pattern that matches
\* the label (every pattern before it is well-formed), the result is Deny or
\* DenyUnknown, whatever matched before and whatever pattern comes after.
C2_DenyStopsScan ==
    (Called /\ NonMember) =>
        \A i \in 1..Len(config) :
            (/\ MatchAt(i) = "Deny"
             /\ \A j \in 1..(i - 1) : MatchAt(j) # "Err")
            => result = DenyOf(is_member)

C2_Witness ==
    /\ Called /\ NonMember
    /\ \E i, j, k \in 1..Len(config) :
          /\ j < i /\ i < k
          /\ MatchAt(j) = "Allow" /\ MatchAt(i) = "Deny" /\ MatchAt(k) = "Allow"

\* C3: for a non-Member and a well-formed ACL the result is Allow exactly when
\* some non-negated pattern matches the label and no negated pattern does, and
\* Deny/DenyUnknown otherwise; under the ACL of test_check_filter exactly
\* T-release and I-slow are allowed.
C3_AllowIffAllowedAndNotDenied ==
    (Called /\ NonMember /\ AllWellFormed(config)) =>
        /\ result = IF /\ \E i \in 1..Len(config) : MatchAt(i) = "Allow"
                       /\ \A i \in 1..Len(config) : MatchAt(i) # "Deny"
                    THEN Ok("Allow") ELSE DenyOf(is_member)
        /\ (config = TestConfig /\ label \in TestLabels) =>
              (result = Ok("Allow") <=> label \in {T_release, I_slow})

C3_Witness ==
    /\ Called /\ is_member = "Outsider"
    /\ config = TestConfig /\ label = I_lang_nominated
    /\ result = Ok("Deny")

\* C4 (as claimed): among the inputs check_filter is called on, some well-formed
\* ACL, label and non-Member status give a different result when the same
\* patterns are put in another order.
C4_OrderChangesResult ==
    Called =>
    \E acl \in {a \in Acls : AllWellFormed(a)}, lbl \in Labels,
       member \in {"Outsider", "Unknown"} :
        \E other \in Reorderings(acl) :
            check_filter(lbl, other, member) # check_filter(lbl, acl, member)

FirstErr == CHOOSE i \in 1..Len(config) :
                MatchAt(i) = "Err" /\ \A j \in 1..(i - 1) : MatchAt(j) # "Err"

\* C4 (amended): for a non-Member and a well-formed ACL every ordering of the
\* patterns gives the same result; with a malformed pattern the order decides:
\* a matching negated pattern before the first malformed one gives
\* Deny/DenyUnknown, otherwise the result is the error of that pattern.
C4_OrderMattersOnlyWithMalformed ==
    (Called /\ NonMember) =>
        IF AllWellFormed(config)
        THEN \A other \in Reorderings(config) :
                 check_filter(label, other, is_member) = result
        ELSE IF \E i \in 1..(FirstErr - 1) : MatchAt(i) = "Deny"
             THEN result = DenyOf(is_member)
             ELSE result = Err(PatternErrorMessage(config[FirstErr]))

C4_Witness ==
    /\ Called /\ NonMember /\ AllWellFormed(config)
    /\ \E i, j \in 1..Len(config) :
          i < j /\ MatchAt(i) = "Deny" /\ MatchAt(j) = "Allow"
    /\ result = DenyOf(is_member)

----------------------------------------------------------------------------
(* Properties of handle_command (SpecRelabel).  In these states label,     *)
(* is_member and result are those of the directive examined last.          *)

Examined == queries # <<>>
OtherStatus == IF is_member = "Outsider" THEN "Unknown" ELSE "Outsider"

\* C5: under a well-formed ACL an Outsider and an Unknown caller are allowed
\* the same labels; a label not allowed is Deny for the Outsider and
\* DenyUnknown for the Unknown caller, and the comment handle_command posts
\* for the one differs from the comment it posts for the other.
C5_DenyVersusDenyUnknown ==
    (Examined /\ NonMember /\ AllWellFormed(config)) =>
        /\ result \in {Ok("Allow"),
                       IF is_member = "Outsider" THEN Ok("Deny") ELSE Ok("DenyUnknown")}
        /\ result = Ok("Allow") <=> check_filter(label, config, OtherStatus) = Ok("Allow")
        /\ result # Ok("Allow") =>
              /\ check_filter(label, config, OtherStatus) =
                    (IF is_member = "Outsider" THEN Ok("DenyUnknown") ELSE Ok("Deny"))
              /\ pc = "done"
              /\ ret = "Ok" =>
                    /\ comments = <<ErrorComment(IF is_member = "Outsider"
                                                 THEN DenyMessage(label)
                                                 ELSE DenyUnknownMessage(label))>>
                    /\ comments # <<ErrorComment(IF is_member = "Outsider"
                                                 THEN DenyUnknownMessage(label)
                                                 ELSE DenyMessage(label))>>

C5_Witness ==
    /\ Examined /\ is_member = "Unknown" /\ AllWellFormed(config) /\ config # <<>>
    /\ result = Ok("DenyUnknown")
    /\ comments = <<ErrorComment(DenyUnknownMessage(label))>>
    /\ check_filter(label, config, "Outsider") = Ok("Deny")

\* C6 (as claimed): when the scan of a non-Member's directive reaches a
\* malformed pattern, handle_command posts no comment on the issue.
C6_PatternErrorNotShownToUser ==
    (Examined /\ result.val = "Err") => comments = <<>>

\* C6 (amended): when the scan of a non-Member's directive reaches a malformed
\* pattern, handle_command stops at that directive, issues no label call and
\* posts one error comment `failed to match pattern <pattern>` naming the
\* first malformed pattern and returns Ok -- or returns Err when posting fails.
C6_PatternErrorIsPosted ==
    (Examined /\ result.val = "Err") =>
        /\ NonMember
        /\ pc = "done"
        /\ calls = <<>>
        /\ \/ ret = "Ok" /\ comments =
                 <<ErrorComment(<<"failed to match pattern ">> \o config[FirstErr])>>
           \/ ret = "Err" /\ comments = <<>>

C6_Witness ==
    /\ Examined /\ result.val = "Err" /\ ret = "Ok"
    /\ Len(comments) = 1 /\ comments[1].kind = "ErrorComment"
    /\ Len(queries) = 2

----------------------------------------------------------------------------
(* Properties of compute_label_deltas (SpecDeltas). *)

Computed == computed # <<>>
Range(f) == {f[i] : i \in 1..Len(f)}
AddSet == Range(computed[1].to_add)
RemoveSet == Range(computed[1].to_remove)
NoDelta == [to_add |-> <<>>, to_remove |-> <<>>]
NamedIn(ds) == {ds[i].label : i \in 1..Len(ds)}
Universe == Labels \cup NamedIn(deltas)

\* the label set S after add_labels(to_add) and remove_label of each of to_remove
ApplyDelta(S, c) == (S \cup Range(c.to_add)) \ Range(c.to_remove)

\* the label set S after the first n directives, applied one at a time
RECURSIVE ApplyInOrder(_, _, _)
ApplyInOrder(S, ds, n) ==
    IF n = 0 THEN S
    ELSE IF ds[n].op = "Add" THEN ApplyInOrder(S, ds, n - 1) \cup {ds[n].label}
    ELSE ApplyInOrder(S, ds, n - 1) \ {ds[n].label}

\* the last directive of ds on label l (l is named in ds)
LastOn(ds, l) ==
    ds[CHOOSE i \in 1..Len(ds) :
          ds[i].label = l /\ \A j \in (i + 1)..Len(ds) : ds[j].label # l]

\* C7 (as claimed): on every prior label set the computed delta gives the
\* label set that applying the directives one at a time in order gives.
C7_DeltaEqualsInOrder ==
    Computed =>
        \A S \in SUBSET Universe :
            ApplyDelta(S, computed[1]) = ApplyInOrder(S, deltas, Len(deltas))

\* C7 (amended): on every prior label set S the computed delta and the
\* in-order application agree on every label the list does not name and on
\* every label that ends in the add or the remove set; a label whose
\* directives cancelled out keeps its membership in S, while the in-order
\* application leaves it as the last directive on it says.
C7_DeltaEqualsInOrderUnlessCancelled ==
    Computed =>
        \A S \in SUBSET Universe : \A l \in Universe :
            LET byDelta == l \in ApplyDelta(S, computed[1])
                inOrder == l \in ApplyInOrder(S, deltas, Len(deltas))
            IN  IF l \in AddSet \cup RemoveSet \/ l \notin NamedIn(deltas)
                THEN byDelta <=> inOrder
                ELSE /\ byDelta <=> l \in S
                     /\ inOrder <=> LastOn(deltas, l).op = "Add"

C7_Witness ==
    /\ Computed
    /\ \E l \in NamedIn(deltas), k \in NamedIn(deltas) :
          /\ l \notin AddSet \cup RemoveSet
          /\ k \in RemoveSet
          /\ ApplyDelta({l, k}, computed[1]) = {l}
          /\ ApplyInOrder({l, k}, deltas, Len(deltas)) = {}

\* C8: [Add(L), Remove(L)] and [Remove(L), Add(L)] resolve to two empty sets;
\* in general an Add(L) processed while L is pending removal, or a Remove(L)
\* processed while L is pending addition, leaves L in neither set (and every
\* other label where it was).
C8_Cancellation ==
    Computed =>
        /\ \A l \in Universe :
              deltas \in {<<Add(l), Remove(l)>>, <<Remove(l), Add(l)>>}
              => computed[1] = NoDelta
        /\ deltas # <<>> =>
              LET last == deltas[Len(deltas)]
                  before == compute_label_deltas(SubSeq(deltas, 1, Len(deltas) - 1))
                  opposite == IF last.op = "Add" THEN Range(before.to_remove)
                              ELSE Range(before.to_add)
              IN  last.label \in opposite =>
                     /\ last.label \notin AddSet \cup RemoveSet
                     /\ AddSet = Range(before.to_add) \ {last.label}
                     /\ RemoveSet = Range(before.to_remove) \ {last.label}

C8_Witness ==
    /\ Computed /\ Len(deltas) = 3
    /\ deltas[1] = Remove(deltas[1].label)
    /\ deltas[2].label # deltas[1].label
    /\ deltas[3] = Add(deltas[1].label)
    /\ deltas[1].label \notin AddSet \cup RemoveSet

InsertCopy(ds, i) == SubSeq(ds, 1, i) \o <<ds[i]>> \o SubSeq(ds, i + 1, Len(ds))

\* directive i left its label pending in its own direction (it did not cancel)
PendingAfter(ds, i) ==
    IF ds[i].op = "Add" THEN ds[i].label \in DeltaSets(ds, i).add
    ELSE ds[i].label \in DeltaSets(ds, i).remove

\* C9 (as claimed): a copy of a directive inserted right after it, anywhere
\* in the list, never changes the resolved sets.
C9_CopyNeverChangesResult ==
    Computed =>
        \A i \in 1..Len(deltas) :
            compute_label_deltas(InsertCopy(deltas, i)) = computed[1]

\* C9 (amended): [Add(L), Add(L)] resolves to add = {L}, remove = {}; a copy
\* inserted right after a directive that left its label pending changes
\* nothing; a copy appended after a final directive that cancelled puts the
\* label into the directive's set, so the result changes.
C9_CopyOfPendingDirectiveIsNoOp ==
    Computed =>
        /\ \A l \in Universe :
              deltas = <<Add(l), Add(l)>> =>
                  computed[1] = [to_add |-> <<l>>, to_remove |-> <<>>]
        /\ \A i \in 1..Len(deltas) :
              PendingAfter(deltas, i) =>
                  compute_label_deltas(InsertCopy(deltas, i)) = computed[1]
        /\ (deltas # <<>> /\ ~PendingAfter(deltas, Len(deltas))) =>
              LET last == deltas[Len(deltas)]
                  again == compute_label_deltas(InsertCopy(deltas, Len(deltas)))
              IN  /\ last.label \notin AddSet \cup RemoveSet
                  /\ again # computed[1]
                  /\ last.label \in (IF last.op = "Add" THEN Range(again.to_add)
                                     ELSE Range(again.to_remove))

C9_Witness ==
    /\ Computed /\ Len(deltas) = 3
    /\ deltas[2] = deltas[3] /\ deltas[1].label # deltas[2].label
    /\ PendingAfter(deltas, 2)
    /\ computed[1] = compute_label_deltas(SubSeq(deltas, 1, 2))

\* C10: [Add(L), Remove(L), Add(L)] resolves to add = {L}, remove = {}: a
\* directive on a label in neither set takes effect, also after a
\* cancellation; the permutation [Add(L), Add(L), Remove(L)] of the same
\* directives resolves to two empty sets, so the order matters.
C10_OrderSensitivity ==
    Computed =>
        /\ \A l \in Universe :
              /\ deltas = <<Add(l), Remove(l), Add(l)>> =>
                    computed[1] = [to_add |-> <<l>>, to_remove |-> <<>>]
              /\ deltas = <<Add(l), Add(l), Remove(l)>> => computed[1] = NoDelta
              /\ deltas = <<Remove(l), Add(l), Remove(l)>> =>
                    computed[1] = [to_add |-> <<>>, to_remove |-> <<l>>]
        /\ deltas # <<>> =>
              LET last == deltas[Len(deltas)]
                  before == compute_label_deltas(SubSeq(deltas, 1, Len(deltas) - 1))
              IN  last.label \notin Range(before.to_add) \cup Range(before.to_remove) =>
                     IF last.op = "Add"
                     THEN last.label \in AddSet /\ RemoveSet = Range(before.to_remove)
                     ELSE last.label \in RemoveSet /\ AddSet = Range(before.to_add)

C10_Witness ==
    /\ Computed
    /\ \E l \in Universe : deltas = <<Add(l), Remove(l), Add(l)>>
    /\ computed[1] # compute_label_deltas(<<deltas[1], deltas[3], deltas[2]>>)

\* C11: after every prefix of the directive list the add set and the remove
\* set are disjoint, and no label is both in the returned to_add and in the
\* returned to_remove.
C11_AddRemoveDisjoint ==
    Computed =>
        /\ \A n \in 0..Len(deltas) :
              DeltaSets(deltas, n).add \cap DeltaSets(deltas, n).remove = {}
        /\ \A i \in 1..Len(computed[1].to_add), j \in 1..Len(computed[1].to_remove) :
              computed[1].to_add[i] # computed[1].to_remove[j]

C11_Witness ==
    /\ Computed /\ Len(deltas) = 3
    /\ deltas[1].label = deltas[2].label /\ deltas[1].op # deltas[2].op
    /\ AddSet # {} /\ AddSet \cap RemoveSet = {}
    /\ deltas[3].label # deltas[1].label

\* the directives of ds that name label l, in their order
DirectivesNaming(ds, l) ==
    LET Names(d) == d.label = l IN SelectSeq(ds, Names)

\* C12: a directive changes the pending state of its own label only; whether
\* a label ends in the add set, the remove set or neither is what the
\* directives naming that label alone resolve to; in the worked example
\* I-nominated and I-libs-nominated stay in the add set.
C12_DirectiveTouchesItsLabelOnly ==
    Computed =>
        /\ \A n \in 1..Len(deltas) : \A l \in Universe \ {deltas[n].label} :
              /\ l \in DeltaSets(deltas, n).add <=> l \in DeltaSets(deltas, n - 1).add
              /\ l \in DeltaSets(deltas, n).remove <=> l \in DeltaSets(deltas, n - 1).remove
        /\ \A l \in Universe :
              LET own == compute_label_deltas(DirectivesNaming(deltas, l))
              IN  /\ l \in AddSet <=> own.to_add = <<l>>
                  /\ l \in RemoveSet <=> own.to_remove = <<l>>
        /\ deltas \in {TestDeltas1, TestDeltas2} =>
              {I_nominated, I_libs_nominated} \subseteq AddSet

C12_Witness ==
    /\ Computed /\ deltas = TestDeltas2
    /\ computed[1] = [to_add |-> <<I_lang_nominated, I_libs_nominated, I_nominated>>,
                      to_remove |-> <<needs_triage>>]

ToAsciiUppercase(c) == IF IsLower(c) THEN Uppercase[LetterIndex(c)] ELSE c
LowerCased(s) == [i \in 1..Len(s) |-> ToAsciiLowercase(s[i])]
UpperCased(s) == [i \in 1..Len(s) |-> ToAsciiUppercase(s[i])]

\* C13: label equality in compute_label_deltas is case-sensitive: Add of a
\* label followed by Remove of the same name in another letter case leaves
\* one in each set; matching in match_pattern is case-insensitive: a label
\* used as a pattern matches in any letter case of the pattern, and pattern
\* `i-*` matches label `I-nominated`.
C13_CaseSensitiveSetsCaseInsensitiveAcl ==
    Computed =>
        /\ \A l, k \in Universe :
              (l # k /\ LowerCased(l) = LowerCased(k)) =>
                  /\ deltas = <<Add(l), Remove(k)>> =>
                        computed[1] = [to_add |-> <<l>>, to_remove |-> <<k>>]
                  /\ deltas = <<Remove(l), Add(k)>> =>
                        computed[1] = [to_add |-> <<k>>, to_remove |-> <<l>>]
        /\ \A l \in NamedIn(deltas) :
              /\ match_pattern(LowerCased(l), l) = "Allow"
              /\ match_pattern(UpperCased(l), l) = "Allow"
              /\ match_pattern(l, LowerCased(l)) = "Allow"
              /\ match_pattern(l, UpperCased(l)) = "Allow"
        /\ I_nominated \in NamedIn(deltas) =>
              /\ match_pattern(<<"i", "-", "*">>, I_nominated) = "Allow"
              /\ match_pattern(<<"I", "-", "*">>, LowerCased(I_nominated)) = "Allow"

C13_Witness ==
    /\ Computed
    /\ deltas = <<Add(<<"A", "b">>), Remove(<<"a", "b">>)>>
    /\ AddSet = {<<"A", "b">>} /\ RemoveSet = {<<"a", "b">>}
    /\ match_pattern(<<"a", "B">>, <<"A", "b">>) = "Allow"

----------------------------------------------------------------------------
(* Properties of NoteCommand::parse (SpecNote). *)

NoteCalled == note_result # <<>>
NoteRes == note_result[1]
NoteSucceeded == NoteCalled /\ NoteRes.tag \in {"Summary", "Remove"}

\* the tokens of text from offset p, up to the end of input or to a lexical
\* error (which is then the last element)
RECURSIVE TokensFrom(_, _)
TokensFrom(text, p) ==
    LET t == next_token(text, p) IN
    IF t.kind = "None" THEN <<>>
    ELSE IF t.kind = "LexError" THEN <<t>>
    ELSE <<t>> \o TokensFrom(text, t.pos)

NoteTokens == TokensFrom(note_text, note_start)
IsWord(t, w) == t.kind = "Word" /\ t.text = w
IsTitle(t) == t.kind = "Quote" \/ (t.kind = "Word" /\ t.text # REMOVE)
FirstIsNote == NoteTokens # <<>> /\ IsWord(NoteTokens[1], NOTE)
FirstLexes == NoteTokens = <<>> \/ NoteTokens[1].kind # "LexError"
HasTitle == \E k \in 2..Len(NoteTokens) : IsTitle(NoteTokens[k])
TitleIndex ==
    CHOOSE k \in 2..Len(NoteTokens) :
        IsTitle(NoteTokens[k]) /\ \A j \in 2..(k - 1) : ~IsTitle(NoteTokens[j])
IsMissingTitle == NoteCalled /\ NoteRes.tag = "Err" /\ NoteRes.error = "MissingTitle"

\* C14: when parse returns Ok(Some(..)), the caller's tokenizer is positioned
\* just after the title token the grammar consumed.
C14_CallerCursorAdvancedOnSuccess ==
    NoteSucceeded =>
        /\ note_input = NoteTokens[TitleIndex].pos
        /\ note_input > note_start

\* C15: when parse declines (Ok(None)) or fails (Err), the caller's tokenizer
\* is where it was before the call, whatever the clone consumed.
C15_CallerUnchangedOnDeclineOrError ==
    (NoteCalled /\ NoteRes.tag \in {"None", "Err"}) => note_input = note_start

\* a failed attempt whose clone consumed `note` and at least one `remove`
C15_Witness ==
    /\ IsMissingTitle
    /\ Len(NoteTokens) >= 2
    /\ note_toks > note_start
    /\ note_input = note_start

\* C16: after a first token `note`, the title is the first following token
\* that is a quoted text or a word other than `remove`; the result is Remove
\* if one or more `remove` words came before the title and Summary otherwise;
\* the text after the title does not affect the result.
C16_TitleAndVariant ==
    (NoteCalled /\ FirstIsNote /\ HasTitle) =>
        LET k == TitleIndex
            variant == IF \E j \in 2..(k - 1) : IsWord(NoteTokens[j], REMOVE)
                       THEN "Remove" ELSE "Summary"
        IN  /\ NoteRes = OkSome(variant, NoteTokens[k].text)
            /\ NoteRes = NoteParse(SubSeq(note_text, 1, NoteTokens[k].pos), note_start).res

\* `note remove remove <title> <more>`: Remove with tokens left after the title
C16_Witness ==
    /\ NoteCalled /\ FirstIsNote /\ HasTitle
    /\ TitleIndex >= 4
    /\ Len(NoteTokens) > TitleIndex
    /\ NoteRes.tag = "Remove"

\* C17: parse fails with MissingTitle, anchored at the offset the clone has
\* reached (the end of input), exactly when `note` is followed by zero or more
\* words `remove` and then the end of input; `note remove` is MissingTitle and
\* `note "remove"` is Summary with title `remove`.
C17_MissingTitleExactly ==
    NoteCalled =>
        /\ IsMissingTitle <=>
               (FirstIsNote /\ \A j \in 2..Len(NoteTokens) : IsWord(NoteTokens[j], REMOVE))
        /\ IsMissingTitle =>
               (NoteRes.position = note_toks /\ NoteRes.position = Len(note_text))
        /\ (note_text = Joined(<<NOTE, REMOVE>>) /\ note_start = 0) => IsMissingTitle
        /\ (note_text = Joined(<<NOTE, SegmentPool[7]>>) /\ note_start = 0) =>
               NoteRes = OkSome("Summary", REMOVE)

\* `note remove` alone
C17_Witness ==
    /\ IsMissingTitle
    /\ Len(NoteTokens) >= 2
    /\ NoteRes.position = Len(note_text)

\* C18 as stated: an Err result implies the first token is the word `note`,
\* and every input whose first token is not the word `note`, an unterminated
\* quote included, gives Ok(None).
C18_ErrOnlyAfterKeyword ==
    NoteCalled =>
        /\ NoteRes.tag = "Err" => FirstIsNote
        /\ ~FirstIsNote => NoteRes = OkNone

\* C18, amended: an Err result is either the lexical error of a token the
\* parse read (the first token included), anchored at its opening delimiter,
\* or MissingTitle after a first token `note`; a first token that lexes and is
\* not the word `note` gives Ok(None).
C18_ErrIsLexicalOrAfterKeyword ==
    NoteCalled =>
        /\ NoteRes.tag = "Err" =>
               \/ /\ NoteRes.error = "UnterminatedQuote"
                  /\ NoteTokens[Len(NoteTokens)] = LexError(NoteRes.position)
                  /\ note_text[NoteRes.position + 1] = DQUOTE
                  /\ Len(NoteTokens) = 1 \/ FirstIsNote
               \/ NoteRes.error = "MissingTitle" /\ FirstIsNote
        /\ (FirstLexes /\ ~FirstIsNote) => NoteRes = OkNone
        /\ (NoteTokens # <<>> /\ NoteTokens[1].kind = "LexError") =>
               NoteRes = ParseErr("UnterminatedQuote", NoteTokens[1].pos)

\* the input begins with an unterminated quote and the result is Err
C18_Witness ==
    /\ NoteCalled
    /\ NoteTokens # <<>> /\ NoteTokens[1].kind = "LexError"
    /\ NoteRes.tag = "Err"

\* C19: when the first token lexes and is not the word `note` in exactly that
\* letter case (`Note`, `NOTE`, a quoted "note", another word, empty input),
\* parse returns Ok(None) and consumes nothing, a later `note` notwithstanding.
C19_DeclinesWithoutKeyword ==
    (NoteCalled /\ FirstLexes /\ ~FirstIsNote) =>
        /\ NoteRes = OkNone
        /\ note_input = note_start
        /\ note_toks = note_start

\* first token `Note` or `NOTE`, with a word `note` later in the text
C19_Witness ==
    /\ NoteCalled /\ NoteRes = OkNone
    /\ NoteTokens # <<>>
    /\ NoteTokens[1].kind = "Word"
    /\ NoteTokens[1].text # NOTE
    /\ [i \in 1..Len(NoteTokens[1].text) |-> ToAsciiLowercase(NoteTokens[1].text[i])] = NOTE
    /\ \E j \in 2..Len(NoteTokens) : IsWord(NoteTokens[j], NOTE)

----------------------------------------------------------------------------
(* Properties of handle_command, continued (SpecRelabel). *)

AllAuthorized == idx > Len(input)
AllMutationsSucceeded == \A i \in 1..Len(calls) : calls[i].ok

\* C20: when every directive is authorized and every label mutation succeeds,
\* handle_command posts no comment on the issue and returns Ok.
C20_SuccessIsSilent ==
    (pc = "done" /\ AllAuthorized /\ AllMutationsSucceeded) =>
        (comments = <<>> /\ ret = "Ok")

\* a finished command of a non-member that added and removed labels
C20_Witness ==
    /\ pc = "done" /\ AllAuthorized /\ AllMutationsSucceeded
    /\ \E i \in 1..Len(queries) : queries[i].status # "Member"
    /\ \E i \in 1..Len(calls) : calls[i].op = "remove_label"
    /\ calls[1].op = "add_labels"
    /\ comments = <<>> /\ ret = "Ok"

Stopped == pc = "done" /\ idx <= Len(input)
QueryAllowed(i) == check_filter(queries[i].name, config, queries[i].status) = Ok("Allow")
QueriesInOrder == \A i \in 1..Len(queries) : queries[i].name = input[i].label
CommentFor(i) ==
    ErrorComment(ErrOf(queries[i].name,
                       check_filter(queries[i].name, config, queries[i].status))[1])

\* C21 as stated: at the first directive that is not allowed, handle_command
\* posts exactly one error comment, for that directive, issues no add_labels
\* and no remove_label call, and returns Ok.
C21_DeniedPostsOneCommentReturnsOk ==
    Stopped =>
        /\ Len(queries) = idx /\ QueriesInOrder
        /\ \A i \in 1..(idx - 1) : QueryAllowed(i)
        /\ ~QueryAllowed(idx)
        /\ calls = <<>>
        /\ comments = <<CommentFor(idx)>>
        /\ ret = "Ok"

\* C21, amended: directives are checked in their order; at the first one that
\* is not allowed no add_labels and no remove_label call is ever issued, and
\* one error comment for that directive is sent: when it is posted the
\* command returns Ok with exactly that comment, when posting fails the
\* command returns Err and the issue has no comment. A label call is issued
\* only after every directive was found allowed.
C21_AllOrNothing ==
    /\ Stopped =>
        /\ Len(queries) = idx /\ QueriesInOrder
        /\ \A i \in 1..(idx - 1) : QueryAllowed(i)
        /\ ~QueryAllowed(idx)
        /\ calls = <<>>
        /\ \/ ret = "Ok" /\ comments = <<CommentFor(idx)>>
           \/ ret = "Err" /\ comments = <<>>
    /\ calls # <<>> =>
        /\ Len(queries) = Len(input)
        /\ \A i \in 1..Len(queries) : QueryAllowed(i)
        /\ \A i \in 1..Len(comments) : comments[i].kind # "ErrorComment"

\* the second directive is refused after the first was allowed
C21_Witness ==
    /\ Stopped /\ idx = 2 /\ QueryAllowed(1) /\ ~QueryAllowed(2)
    /\ calls = <<>> /\ ret = "Ok" /\ Len(comments) = 1

\* C22: for a non-Member and a label L the ACL does not allow, the command
\* [Add(L), Remove(L)], whose resolved delta is empty, stops at its first
\* directive with an error comment and issues no label call; it never ends
\* as a silent success.
C22_CancelledDirectivesAreAuthorized ==
    (/\ pc = "done" /\ Len(input) = 2
     /\ input[1].op = "Add" /\ input[2] = Remove(input[1].label)
     /\ queries[1].status # "Member" /\ ~QueryAllowed(1)) =>
        /\ compute_label_deltas(input) = NoDelta
        /\ Stopped /\ idx = 1 /\ Len(queries) = 1
        /\ calls = <<>>
        /\ ret = "Ok" => comments = <<CommentFor(1)>>
        /\ ret # "Ok" => (ret = "Err" /\ comments = <<>>)

\* [Add(L), Remove(L)] of an Outsider refused with the Deny comment
C22_Witness ==
    /\ pc = "done" /\ Len(input) = 2
    /\ input[1].op = "Add" /\ input[2] = Remove(input[1].label)
    /\ queries[1].status = "Outsider" /\ ~QueryAllowed(1)
    /\ comments = <<ErrorComment(DenyMessage(input[1].label))>>
    /\ calls = <<>> /\ ret = "Ok"

\* the labels of a sequence are in strictly ascending order
Ascending(ls) == \A i \in 1..(Len(ls) - 1) : LabelLess(ls[i], ls[i + 1])

\* C23: when every directive is authorized, the calls are add_labels once, with
\* the whole add set (empty or not), then remove_label for the labels of the
\* remove set in ascending order; a failed call is the last call and ends the
\* command with Err, and no call undoes the calls before it.
C23_CallSchedule ==
    AllAuthorized =>
        LET d == compute_label_deltas(input) IN
        /\ to_add = d.to_add /\ to_remove = d.to_remove
        /\ Ascending(to_remove)
        /\ Len(calls) <= 1 + Len(to_remove)
        /\ \A i \in 1..Len(calls) :
              /\ calls[i].op = IF i = 1 THEN "add_labels" ELSE "remove_label"
              /\ calls[i].labels = IF i = 1 THEN to_add ELSE <<to_remove[i - 1]>>
              /\ i < Len(calls) => calls[i].ok
        /\ (calls # <<>> /\ ~calls[Len(calls)].ok) => (pc = "done" /\ ret = "Err")
        /\ (pc = "done" /\ ret = "Ok") =>
              (Len(calls) = 1 + Len(to_remove) /\ AllMutationsSucceeded)
        /\ pc = "done" => calls # <<>>

\* add_labels with an empty add set succeeded, the first of two remove_label
\* calls succeeded and the second failed
C23_Witness ==
    /\ AllAuthorized /\ pc = "done" /\ ret = "Err"
    /\ Len(calls) = 3 /\ calls[1].labels = <<>> /\ calls[1].ok
    /\ calls[2].ok /\ ~calls[3].ok

\* C24: one membership query per directive examined, in directive order, none
\* after the first directive that is not allowed; each directive is judged
\* with the status its own query returned.
C24_OneQueryPerDirectiveExamined ==
    /\ Len(queries) = IF pc = "check" THEN idx - 1
                      ELSE IF Stopped THEN idx ELSE Len(input)
    /\ QueriesInOrder
    /\ \A i \in 1..(Len(queries) - 1) : QueryAllowed(i)
    /\ (queries # <<>> /\ ~Stopped) => QueryAllowed(Len(queries))
    /\ Stopped => ~QueryAllowed(Len(queries))
    /\ queries # <<>> =>
          /\ label = queries[Len(queries)].name
          /\ is_member = queries[Len(queries)].status
          /\ result = check_filter(label, config, is_member)

\* the first directive passed as Member, the second was refused as a
\* non-Member although a Member would have been allowed it
C24_Witness ==
    /\ Len(queries) = 2
    /\ queries[1].status = "Member" /\ queries[2].status # "Member"
    /\ check_filter(queries[1].name, config, queries[2].status) # Ok("Allow")
    /\ Stopped /\ idx = 2
    /\ check_filter(queries[2].name, config, queries[1].status) = Ok("Allow")

----------------------------------------------------------------------------
(* Properties of zulip_topic_from_issue (SpecTopic). *)

TopicBuilt == zt_topic # <<>>
Topic == zt_topic[1]
Untruncated == zt_issue.title \o <<" ">> \o zt_issue.topic_ref
Truncated == TopicBuilt /\ Topic.kind = "Ok" /\ Topic.topic # Untruncated

\* C29: for every title and every topic reference the topic has at most 60
\* chars (the ellipsis counting as one), the title is truncated only when
\* title + space + reference exceeds 60 chars, a truncated topic has exactly
\* 60 chars, and 60 - (reference length) - 2 does not underflow.
C29_TopicWithinLimit ==
    TopicBuilt =>
        /\ ZulipTopicLimit - Len(zt_issue.topic_ref) - 2 >= 0
        /\ Topic.kind = "Ok"
        /\ Len(Topic.topic) <= ZulipTopicLimit
        /\ Truncated => Len(Untruncated) > ZulipTopicLimit
        /\ Truncated => Len(Topic.topic) = ZulipTopicLimit

----------------------------------------------------------------------------
(* Properties of major_change (SpecMajorChange). *)

McDone == mc_pc = "done"
McConfig == mc_config[1]
Enabled == HasLabel(mc_event, McConfig.enabling_label)
Issued(op) == \E i \in 1..Len(mc_log) : mc_log[i].op = op
\* the two requests of handle
LabelIssued == Issued("add_labels")
ZulipIssued == \E i \in 1..Len(mc_log) : mc_log[i].op = "zulip_send" /\ mc_log[i].res = "issued"
OnlyErrorComment(msg) ==
    /\ Len(mc_log) = 1
    /\ mc_log[1].op = "ErrorComment" /\ mc_log[1].arg = msg
    /\ mc_gh = "none" /\ mc_zulip = "none"

\* C25: in handle_command a team lookup that returns false or fails leads to
\* the comment `Only team members can second issues.` and to no label and no
\* Zulip request; without the enabling label the only request is the
\* `cannot be seconded` comment, and the team lookup is not even made.
C25_SecondingFailsClosed ==
    mc_entry = "handle_command" =>
        /\ ~Enabled =>
              \/ mc_pc = "start" /\ mc_log = <<>>
              \/ McDone /\ OnlyErrorComment(CannotBeSecondedMessage(McConfig))
        /\ (Enabled /\ mc_log # <<>>) => mc_log[1].op = "is_team_member"
        /\ (Enabled /\ mc_log # <<>> /\ mc_log[1].res \in {"false", "error"}) =>
              /\ McDone /\ Len(mc_log) = 2
              /\ mc_log[2].op = "ErrorComment" /\ mc_log[2].arg = OnlyTeamMembersMessage
              /\ mc_gh = "none" /\ mc_zulip = "none"
        /\ (LabelIssued \/ ZulipIssued) => (Enabled /\ mc_log[1].res = "true")

\* the team lookup failed on an issue that carries the enabling label
C25_Witness ==
    /\ mc_entry = "handle_command" /\ McDone /\ Enabled
    /\ mc_log[1].op = "is_team_member" /\ mc_log[1].res = "error"
    /\ mc_log[2].arg = OnlyTeamMembersMessage /\ mc_log[2].res = "ok"
    /\ mc_ret = "Ok"

\* C26: in handle the label request and the Zulip message are issued together
\* and both complete before handle returns; the result is Ok only if both
\* succeeded, the Zulip error if Zulip failed (the label request may have
\* succeeded), the label error if only the label request failed; the comment
\* of a new proposal is posted first and its failure prevents both requests.
C26_JoinDrivesBothToCompletion ==
    /\ LabelIssued =>
          \E i \in 1..(Len(mc_log) - 1) :
              /\ mc_log[i].op = "add_labels"
              /\ mc_log[i + 1].op = "zulip_send" /\ mc_log[i + 1].res = "issued"
    /\ (LabelIssued /\ McDone) => (mc_gh \in {"ok", "err"} /\ mc_zulip \in {"ok", "err"})
    /\ (ZulipIssued /\ McDone) =>
          /\ mc_ret = "Ok" <=> (mc_gh # "err" /\ mc_zulip = "ok")
          /\ mc_zulip = "err" => mc_ret = "Err: zulip post failed"
          /\ (mc_zulip = "ok" /\ mc_gh = "err") => mc_ret = "Err: label setting failed"
    /\ \A i \in 1..Len(mc_log) :
          mc_log[i].op = "post_comment" =>
              /\ i = 1
              /\ mc_log[i].res = "err" =>
                    /\ McDone /\ Len(mc_log) = 1
                    /\ mc_ret = "Err: post major change comment"
                    /\ mc_gh = "none" /\ mc_zulip = "none"
    /\ (mc_entry = "handle_input" /\ mc_cmd.kind = "NewProposal" /\ ZulipIssued) =>
          (mc_log[1].op = "post_comment" /\ mc_log[1].res = "ok")

\* a new proposal: the label was added, the Zulip message failed, Err is returned
C26_Witness ==
    /\ McDone /\ LabelIssued /\ mc_cmd.kind = "NewProposal"
    /\ mc_gh = "ok" /\ mc_zulip = "err"
    /\ mc_ret = "Err: zulip post failed"

\* C27: parse_input returns None for an Opened event, and NewProposal exactly
\* for a Labeled event whose label is the enabling label and neither the accept
\* nor the concerns label, or a Reopened event on an issue that carries the
\* enabling label.
C27_NewProposalOnlyOnLabelOrReopen ==
    (mc_entry = "parse_input" /\ McDone) =>
        /\ mc_event.action = "Opened" => mc_cmd = NoInvocation
        /\ mc_cmd.kind = "NewProposal" <=>
              /\ mc_config # <<>>
              /\ \/ /\ mc_event.action = "Labeled"
                    /\ mc_event.label = McConfig.enabling_label
                    /\ mc_event.label # McConfig.accept_label
                    /\ <<mc_event.label>> # McConfig.concerns_label
                 \/ mc_event.action = "Reopened" /\ Enabled

\* an Opened event on an issue that already carries the enabling label
C27_Witness ==
    /\ mc_entry = "parse_input" /\ McDone
    /\ mc_event.action = "Opened"
    /\ mc_config # <<>> /\ Enabled
    /\ mc_cmd = NoInvocation

\* C28: handle_input on an issue without the enabling label makes one request,
\* the error comment `not ready for proposals`, whatever the Invocation; and
\* parse_input returns Rename exactly for an Edited event with a title change
\* on an issue that carries the enabling label.
C28_NotReadyOnlyComments ==
    /\ (mc_entry = "handle_input" /\ ~Enabled) =>
          \/ mc_pc = "start" /\ mc_log = <<>>
          \/ McDone /\ OnlyErrorComment(NotReadyMessage(McConfig))
    /\ (mc_entry = "parse_input" /\ McDone) =>
          (mc_cmd.kind = "Rename" <=>
              /\ mc_config # <<>>
              /\ mc_event.action = "Edited" /\ mc_event.changes = "Title"
              /\ Enabled)

\* an accepted proposal on an issue that lacks the enabling label
C28_Witness ==
    /\ mc_entry = "handle_input" /\ McDone /\ ~Enabled
    /\ mc_cmd.kind = "AcceptedProposal"
    /\ OnlyErrorComment(NotReadyMessage(McConfig))
    /\ mc_ret = "Ok"

====
